---- MODULE Spec2Model ----
(***************************************************************************)
(* Model of the bridge functions registered by EmbeddedWebsite             *)
(* (source/website/embeddedwebsite.js): the scale-ruler overlay, the       *)
(* camera-direction and reset transitions and the frame callbacks that     *)
(* drive them.                                                             *)
(*                                                                         *)
(* Numbers.  JavaScript numbers are modelled as fixed-point values with    *)
(* One units per 1.0; every product and quotient is rounded to the nearest *)
(* unit, so that arithmetic has finite precision as it has in the code.    *)
(* Time is counted in ticks of 1/TicksPerMs milliseconds.                  *)
(***************************************************************************)
EXTENDS Integers, Sequences, FiniteSets, TLC

(***************************************************************************)
(* Bounds of the model.                                                    *)
(***************************************************************************)
TicksPerMs == 10
MaxSessions == 2
LastFrame == 5
MaxHandles == 4
MaxLoads == 2

(***************************************************************************)
(* Program constants.                                                      *)
(***************************************************************************)
duration == 400

DurTicks == duration * TicksPerMs
One == DurTicks
Half == One \div 2

(***************************************************************************)
(* Fixed-point arithmetic.                                                 *)
(***************************************************************************)
Abs(a) == IF a < 0 THEN -a ELSE a

Min(a, b) == IF a < b THEN a ELSE b

RoundDiv(a, b) ==
    IF a >= 0 THEN (2 * a + b) \div (2 * b) ELSE -((2 * (-a) + b) \div (2 * b))

Mul(a, b) == RoundDiv(a * b, One)

Div(a, b) == RoundDiv(a * One, b)

RECURSIVE SqrtSearch(_, _, _)
SqrtSearch(n, lo, hi) ==
    IF lo >= hi THEN lo
    ELSE LET mid == (lo + hi + 1) \div 2
         IN IF mid * mid <= n THEN SqrtSearch(n, mid, hi)
                              ELSE SqrtSearch(n, lo, mid - 1)

\* Math.sqrt of a sum of products of two fixed-point numbers: the root of
\* the exact sum, rounded to the nearest unit.
Sqrt(n) ==
    LET r == SqrtSearch(n, 0, 46000)
    IN IF n - r * r > r THEN r + 1 ELSE r

VAdd(a, b) == <<a[1] + b[1], a[2] + b[2], a[3] + b[3]>>
VSub(a, b) == <<a[1] - b[1], a[2] - b[2], a[3] - b[3]>>
VTimes(a, k) == <<a[1] * k, a[2] * k, a[3] * k>>
VMul(a, f) == <<Mul(a[1], f), Mul(a[2], f), Mul(a[3], f)>>
VDiv(a, f) == <<Div(a[1], f), Div(a[2], f), Div(a[3], f)>>
VLen(a) == Sqrt(a[1] * a[1] + a[2] * a[2] + a[3] * a[3])


(***************************************************************************)
(* Tables and values of the program.                                       *)
(***************************************************************************)
Directions == {"front", "back", "left", "right", "top", "bottom"}

\* The tokens the host may pass to setCameraDirection: the six directions
\* and one token that is none of them.
Tokens == Directions \cup {"diagonal"}

\* dirVec of the switch in setCameraDirection (plain integers).
DirVec(direction) ==
    CASE direction = "front"  -> <<0, 0, 1>>
      [] direction = "back"   -> <<0, 0, -1>>
      [] direction = "left"   -> <<-1, 0, 0>>
      [] direction = "right"  -> <<1, 0, 0>>
      [] direction = "top"    -> <<0, 1, 0>>
      [] direction = "bottom" -> <<0, -1, 0>>

\* upVec of the switch in setCameraDirection (fixed-point).
UpVec(direction) ==
    CASE direction = "top"    -> <<0, 0, -One>>
      [] direction = "bottom" -> <<0, 0, One>>
      [] OTHER                -> <<0, One, 0>>

\* Math.sin and Math.cos of the 15 degree elevation, to four decimals.
Sin15 == RoundDiv(2588 * One, 10000)
Cos15 == RoundDiv(9659 * One, 10000)

\* let currentRulerMeshIndex = undefined
Undefined == -2

\* The mesh indices the host passes: the whole object and the first mesh.
MeshIndices == {-1}


Origin == <<0, 0, 0>>

\* The camera OnModelFinished sets: front, 15 degrees above the horizontal,
\* at distance 3.5 from the origin.
LoadCamera ==
    [eye |-> <<0, Mul(Sin15, (7 * One) \div 2), Mul(Cos15, (7 * One) \div 2)>>,
     center |-> Origin,
     up |-> <<0, One, 0>>]

\* The camera of the viewer before any model is loaded: a front view.
InitCamera == [eye |-> <<0, 0, 5 * One>>, center |-> Origin, up |-> <<0, One, 0>>]

\* Cameras the user can reach by navigating: a front view, a top view and
\* an oblique view around a center away from the origin.
NavCameras ==
    { InitCamera,
      [eye |-> <<0, 5 * One, 0>>, center |-> Origin, up |-> <<0, 0, -One>>],
      [eye |-> <<3 * One, 4 * One, 2 * One>>, center |-> <<0, 0, 2 * One>>,
       up |-> <<0, One, 0>>] }

(***************************************************************************)
(* Eased progress of a transition frame.                                   *)
(***************************************************************************)
\* A progress that stays below 1.
RawOfBelowOne(now, startTime) ==
    Min(RoundDiv((now - startTime) * One, DurTicks), One - 1)

\* raw = Math.min((now - startTime) / duration, 1)
RawOf(now, startTime) == Min(RoundDiv((now - startTime) * One, DurTicks), One)

\* t = 1 - (1 - raw) * (1 - raw) * (1 - raw)
Ease(raw) == One - Mul(Mul(One - raw, One - raw), One - raw)

\* The frame times of the model: the quarters of the duration, and the first
\* time (if any) at which the eased progress is exactly one half.
Quarter == DurTicks \div 4
EaseHalfTimes == {e \in 1..DurTicks : Ease(RawOf(e, 0)) = Half}
FrameTimes ==
    {k * Quarter : k \in 1..LastFrame}
    \cup {e \in EaseHalfTimes : \A f \in EaseHalfTimes : e <= f}

(***************************************************************************)
(* Ruler numbers.  Lengths of the ruler and of the bounding box are        *)
(* counted in units of 1/Scale; fractions of them (0.08, 0.055, ...) are   *)
(* taken exactly where they divide and rounded to the unit otherwise.  A   *)
(* number handed to formatTickNum is n units plus eps units of 1e-10, so   *)
(* that values within 1e-9 of an integer are among the inputs.             *)
(***************************************************************************)
Scale == 10000

Num(n, eps) == [n |-> n, eps |-> eps]

Max(a, b) == IF a > b THEN a ELSE b

\* Math.pow(10, k) in units of 1/Scale, for k in -4..4.
Pow10(k) ==
    CASE k = -4 -> 1 [] k = -3 -> 10 [] k = -2 -> 100 [] k = -1 -> 1000
      [] k = 0 -> 10000 [] k = 1 -> 100000 [] k = 2 -> 1000000
      [] k = 3 -> 10000000 [] k = 4 -> 100000000

\* Math.floor(Math.log10(length / divisions)): the largest k with
\* 10^k <= length / divisions.
FloorLog10(length, divs) ==
    CHOOSE k \in -4..4 :
        /\ Pow10(k) * divs <= length
        /\ (k = 4 \/ Pow10(k + 1) * divs > length)

\* A niceStep without the rung 2: a residual above 1.5 gives 5 at once.
NiceStepWithoutTwo(length, divisions) ==
    LET divs == IF divisions = 0 THEN 10 ELSE divisions
        mag == Pow10(FloorLog10(length, divs))
        nice == IF 2 * length <= 3 * divs * mag THEN 1
                ELSE IF 2 * length <= 15 * divs * mag THEN 5
                ELSE 10
    IN nice * mag

\* niceStep(length, divisions)
NiceStep(length, divisions) ==
    LET divs == IF divisions = 0 THEN 10 ELSE divisions
        mag == Pow10(FloorLog10(length, divs))
        nice == IF 2 * length <= 3 * divs * mag THEN 1
                ELSE IF 2 * length <= 7 * divs * mag THEN 2
                ELSE IF 2 * length <= 15 * divs * mag THEN 5
                ELSE 10
    IN nice * mag

\* A division count capped at 5 instead of 10.
TargetDivsCappedAtFive(length, labelWidth6) ==
    Min(5, Max(2, (200 * length) \div (3 * labelWidth6)))

\* The division count of addGraduatedTicks for a label width given in
\* units of 1e-6: Math.min(10, Math.max(2, Math.floor(length /
\* (labelWidth * 1.5)))).
TargetDivs(length, labelWidth6) ==
    Min(10, Max(2, (200 * length) \div (3 * labelWidth6)))

\* The step of addGraduatedTicks.
PlanStep(length, labelWidth6) ==
    NiceStep(length, TargetDivs(length, labelWidth6))

\* showMinor = (step / 2) > labelWidth * 1.2
ShowMinor(step, labelWidth6) == 125 * step > 3 * labelWidth6

(***************************************************************************)
(* Texts are sequences of characters.                                      *)
(***************************************************************************)
Digit(d) ==
    CASE d = 0 -> "0" [] d = 1 -> "1" [] d = 2 -> "2" [] d = 3 -> "3"
      [] d = 4 -> "4" [] d = 5 -> "5" [] d = 6 -> "6" [] d = 7 -> "7"
      [] d = 8 -> "8" [] d = 9 -> "9"

DigitValue(c) == CHOOSE d \in 0..9 : Digit(d) = c

IsDigit(c) == \E d \in 0..9 : Digit(d) = c

\* String(n) for an integer n >= 0.
RECURSIVE Digits(_)
Digits(n) ==
    IF n < 10 THEN <<Digit(n)>> ELSE Append(Digits(n \div 10), Digit(n % 10))

\* String(n) for any integer n.
IntText(n) == IF n < 0 THEN <<"-">> \o Digits(-n) ELSE Digits(n)

IsNegative(v) == v.n < 0 \/ (v.n = 0 /\ v.eps < 0)

Magnitude(v) == IF IsNegative(v) THEN Num(-v.n, -v.eps) ELSE v

\* Math.abs(val) < 1e-9
IsTiny(v) == v.n = 0 /\ Abs(v.eps) < 10

\* Number.isInteger(val) || Math.abs(val - Math.round(val)) < 1e-9
IsNearInteger(v) == v.n % Scale = 0 /\ Abs(v.eps) < 10

\* A value is a tie of toFixed(2) when it lies halfway between two
\* hundredths; the tie is exact in binary when the value is a multiple of
\* 1/8, and then toFixed rounds away from zero.  For the other ties the
\* binary value of the number decides, which tieUp stands for.
HundredthsOf(m, tieUp) ==
    LET q == m.n \div (Scale \div 100)
        r == m.n % (Scale \div 100)
        half == Scale \div 200
        up == \/ r > half
              \/ r = half /\ m.eps > 0
              \/ r = half /\ m.eps = 0 /\ (m.n % (Scale \div 8) = 0 \/ tieUp)
    IN IF up THEN q + 1 ELSE q

\* val.toFixed(2)
ToFixed2(v, tieUp) ==
    LET h == HundredthsOf(Magnitude(v), tieUp)
        body == Digits(h \div 100) \o <<".", Digit((h % 100) \div 10),
                                        Digit(h % 10)>>
    IN IF IsNegative(v) THEN <<"-">> \o body ELSE body

\* The suffix of s from position i matches \.?0+$
MatchesZeroTail(s, i) ==
    LET from == IF s[i] = "." THEN i + 1 ELSE i
    IN /\ from <= Len(s)
       /\ \A j \in from..Len(s) : s[j] = "0"

\* s.replace(/\.?0+$/, ''): the leftmost match is removed.
StripZeroTail(s) ==
    LET matches == {i \in 1..Len(s) : MatchesZeroTail(s, i)}
    IN IF matches = {} THEN s
       ELSE SubSeq(s, 1, (CHOOSE i \in matches : \A j \in matches : i <= j) - 1)

\* formatTickNum(val)
FormatTickNum(v, tieUp) ==
    IF IsTiny(v) THEN <<"0">>
    ELSE IF IsNearInteger(v)
    THEN IntText(v.n \div Scale)
    ELSE StripZeroTail(ToFixed2(v, tieUp))

\* The host's number parser on a text of the form -?digits(.digits)?, with
\* at most four decimals.
RECURSIVE DigitsValue(_)
DigitsValue(s) ==
    IF s = <<>> THEN 0
    ELSE 10 * DigitsValue(SubSeq(s, 1, Len(s) - 1)) + DigitValue(s[Len(s)])

ParseNumber(s) ==
    LET neg == s # <<>> /\ s[1] = "-"
        t == IF neg THEN Tail(s) ELSE s
        dots == {i \in 1..Len(t) : t[i] = "."}
        dot == IF dots = {} THEN Len(t) + 1 ELSE CHOOSE i \in dots : TRUE
        whole == DigitsValue(SubSeq(t, 1, dot - 1))
        frac == SubSeq(t, dot + 1, Len(t))
        fracUnits == DigitsValue(frac) * Pow10(-Len(frac))
        n == whole * Scale + fracUnits
    IN Num(IF neg THEN -n ELSE n, 0)

(***************************************************************************)
(* The ruler overlay.                                                      *)
(***************************************************************************)
\* A rulerEdgeMap whose 'top' row puts the Y ruler on the far Z side.
RulerEdgeMapTopFlipped(direction) ==
    CASE direction = "front"  -> <<-1, 1, -1, 1, -1, -1>>
      [] direction = "back"   -> <<-1, -1, 1, -1, 1, -1>>
      [] direction = "left"   -> <<-1, -1, -1, -1, -1, -1>>
      [] direction = "right"  -> <<-1, 1, 1, 1, 1, -1>>
      [] direction = "top"    -> <<1, 1, -1, -1, -1, 1>>
      [] direction = "bottom" -> <<-1, -1, -1, -1, -1, -1>>

\* rulerEdgeMap: [xRulerY, xRulerZ, yRulerX, yRulerZ, zRulerX, zRulerY]
RulerEdgeMap(direction) ==
    CASE direction = "front"  -> <<-1, 1, -1, 1, -1, -1>>
      [] direction = "back"   -> <<-1, -1, 1, -1, 1, -1>>
      [] direction = "left"   -> <<-1, -1, -1, -1, -1, -1>>
      [] direction = "right"  -> <<-1, 1, 1, 1, 1, -1>>
      [] direction = "top"    -> <<1, 1, -1, 1, -1, 1>>
      [] direction = "bottom" -> <<-1, -1, -1, -1, -1, -1>>

\* x * num / den for a fraction of the code (0.08 = 8/100, ...).
Frac(x, num, den) == RoundDiv(x * num, den)

\* The sign vector of an axis-parallel vector: axis.clone().normalize().
Sign(x) == IF x > 0 THEN 1 ELSE IF x < 0 THEN -1 ELSE 0
UnitDir(axis) == <<Sign(axis[1]), Sign(axis[2]), Sign(axis[3])>>

\* The length of an axis-parallel vector: axis.length().
AxisLength(axis) == Abs(axis[1]) + Abs(axis[2]) + Abs(axis[3])

\* One entry of rulerTickSprites: the sprite's position and text, and the
\* rawValue kept for a later change of unit.
TickEntry(pos, rawValue) ==
    [pos |-> pos, rawValue |-> rawValue,
     text |-> FormatTickNum(Num(rawValue, 0), TRUE)]

\* The loop of addGraduatedTicks, with d counted in half units (d2 = 2 * d)
\* so that a halved step stays whole.  The result is the ticks the loop
\* draws, in its order: twice the distance t of each from the start, and
\* whether it is a major tick.
\* A test that calls every tick major.
IsMajorAlways(d2, step) == TRUE

\* isMajor = Math.abs(Math.round(d / step) * step - d) < step * 0.01
IsMajor(d2, step) ==
    100 * Abs(RoundDiv(d2, 2 * step) * 2 * step - d2) < 2 * step

\* A test that skips no tick.
SkipTickNever(t2, step, length) == FALSE

\* "Skip ticks very close to ends":
\* t < step * 0.05 || t > length - step * 0.05
SkipTick(t2, step, length) ==
    10 * t2 < step \/ 10 * t2 > 20 * length - step

RECURSIVE TickLoop(_, _, _, _)
TickLoop(d2, tickStep2, step, length) ==
    IF 1000 * d2 > 2000 * length + 2 * step
    THEN <<>>
    ELSE
      LET t2 == Min(d2, 2 * length)
      IN (IF SkipTick(t2, step, length) THEN <<>>
          ELSE <<[t2 |-> t2, major |-> IsMajor(d2, step)]>>)
             \o TickLoop(d2 + tickStep2, tickStep2, step, length)

\* The ticks of an axis of the given length, for a label width given in
\* units of 1e-6: step = niceStep(length, targetDivs) and
\* tickStep = showMinor ? step / 2 : step.
TicksOfStep(step, showMinor, length) ==
    TickLoop(0, IF showMinor THEN step ELSE 2 * step, step, length)
PlanTicks(length, labelWidth6) ==
    TicksOfStep(PlanStep(length, labelWidth6),
                ShowMinor(PlanStep(length, labelWidth6), labelWidth6),
                length)

\* What the loop adds to the group (a mark per tick) and to
\* rulerTickSprites (an entry per major tick).
IsMajorTick(tick) == tick.major
TickMarks(ticks, start, dir) ==
    [k \in DOMAIN ticks |->
        [pos |-> VAdd(start, VTimes(dir, ticks[k].t2 \div 2)),
         major |-> ticks[k].major]]
TickEntries(ticks, start, dir, labelAt) ==
    LET majors == SelectSeq(ticks, IsMajorTick)
    IN [k \in DOMAIN majors |->
           TickEntry(VAdd(VAdd(start, VTimes(dir, majors[k].t2 \div 2)),
                          labelAt),
                     majors[k].t2 \div 2)]

\* What addGraduatedTicks adds for the ticks of its loop: the marks, and
\* the entries of the "0" at the start, of the major ticks and of the
\* number at the end of the axis, if there is one (atEnd).
GraduatedTicks(ticks, start, dir, labelAt, atEnd) ==
    [marks |-> TickMarks(ticks, start, dir),
     entries |-> <<TickEntry(VAdd(start, labelAt), 0)>>
                 \o TickEntries(ticks, start, dir, labelAt)
                 \o atEnd]

\* An addGraduatedTicks that adds no number at the end of the axis.
AddGraduatedTicksWithoutEnd(start, end, labelOffsetDir, labelOffset, spriteScale) ==
    LET axis == VSub(end, start)
        length == AxisLength(axis)
    IN IF length = 0 THEN [marks |-> <<>>, entries |-> <<>>]
       ELSE
         LET dir == UnitDir(axis)
             labelAt == VTimes(labelOffsetDir, labelOffset)
         IN GraduatedTicks(PlanTicks(length, spriteScale * 105),
                           start, dir, labelAt, <<>>)

\* addGraduatedTicks(group, start, end, tickDir, labelOffsetDir, majorLen,
\* minorLen, labelOffset, spriteScale, material): what it adds to the group
\* (marks) and to rulerTickSprites (entries).
AddGraduatedTicks(start, end, labelOffsetDir, labelOffset, spriteScale) ==
    LET axis == VSub(end, start)
        length == AxisLength(axis)
    IN IF length = 0 THEN [marks |-> <<>>, entries |-> <<>>]
       ELSE
         LET dir == UnitDir(axis)
             labelAt == VTimes(labelOffsetDir, labelOffset)
         IN GraduatedTicks(PlanTicks(length, spriteScale * 105),
                           start, dir, labelAt,
                           <<TickEntry(VAdd(end, labelAt), length)>>)

\* A bounding box: box.min and its size.
Box(min, size) == [min |-> min, size |-> size]

\* No sprite (null), and the sprite of a dimension label: its text and
\* twice its position.
NoSprite == [exists |-> FALSE, text |-> <<>>, pos2 |-> <<0, 0, 0>>]
LabelSprite(text, pos2) == [exists |-> TRUE, text |-> text, pos2 |-> pos2]
NoLabelSprites == [x |-> NoSprite, y |-> NoSprite, z |-> NoSprite]

\* One axis of the group: the ruler line from start to end (its zero end is
\* start), the graduated tick marks on it, and the number of tick number
\* sprites added for it.
AxisRuler(start, end, marks, numbers) ==
    [start |-> start, end |-> end, marks |-> marks, numbers |-> numbers]
NoAxis == AxisRuler(<<0, 0, 0>>, <<0, 0, 0>>, <<>>, 0)
NoAxes == [x |-> NoAxis, y |-> NoAxis, z |-> NoAxis]

\* One axis block of setScaleRuler: the line, the graduated ticks and the
\* main dimension label, placed at the midpoint and moved outwards by
\* endTick * 4.5.
AxisBlockOf(start, end, ticks, label) ==
    [axis |-> AxisRuler(start, end, ticks.marks, Len(ticks.entries)),
     entries |-> ticks.entries,
     label |-> label]
AxisBlock(start, end, labelDir, size, maxDim) ==
    LET endTick == Frac(maxDim, 42, 1000)
        spriteScale == Frac(maxDim, 55, 1000)
    IN AxisBlockOf(start, end,
                   AddGraduatedTicks(start, end, labelDir, endTick * 2,
                                     spriteScale),
                   LabelSprite(ToFixed2(Num(size, 0), TRUE),
                               VAdd(VAdd(start, end),
                                    VTimes(labelDir, 9 * endTick))))

\* The three axis blocks of setScaleRuler together, with the reverse flags.
AxisBlocks(bx, by, bz, reverse) ==
    [axes |-> [x |-> bx.axis, y |-> by.axis, z |-> bz.axis],
     reverse |-> reverse,
     entries |-> [x |-> bx.entries, y |-> by.entries, z |-> bz.entries],
     labels |-> [x |-> bx.label, y |-> by.label, z |-> bz.label]]

\* The three axis blocks of setScaleRuler for a bounding box and a view
\* direction.
BuildAxes(bbox, direction) ==
    LET min == bbox.min
        size == bbox.size
        maxDim == Max(size[1], Max(size[2], size[3]))
        offsetX == Frac(size[1], 8, 100)
        offsetY == Frac(size[2], 8, 100)
        offsetZ == Frac(size[3], 8, 100)
        sides == RulerEdgeMap(direction)
        isTopBottom == direction \in {"top", "bottom"}
        isLeftRight == direction \in {"left", "right"}
        reverseX == sides[3] = 1
        reverseY == sides[1] = 1
        reverseZ == sides[2] = 1
        xY == IF sides[1] = -1 THEN min[2] - offsetY
              ELSE min[2] + size[2] + offsetY
        xZ == IF sides[2] = 1 THEN min[3] + size[3] + offsetZ
              ELSE min[3] - offsetZ
        startX == IF reverseX THEN <<min[1] + size[1], xY, xZ>>
                  ELSE <<min[1], xY, xZ>>
        endX == IF reverseX THEN <<min[1], xY, xZ>>
                ELSE <<min[1] + size[1], xY, xZ>>
        labelDirX == IF isTopBottom THEN <<0, 0, sides[2]>>
                     ELSE <<0, sides[1], 0>>
        yX == IF sides[3] = -1 THEN min[1] - offsetX
              ELSE min[1] + size[1] + offsetX
        yZ == IF sides[4] = 1 THEN min[3] + size[3] + offsetZ
              ELSE min[3] - offsetZ
        startY == IF reverseY THEN <<yX, min[2] + size[2], yZ>>
                  ELSE <<yX, min[2], yZ>>
        endY == IF reverseY THEN <<yX, min[2], yZ>>
                ELSE <<yX, min[2] + size[2], yZ>>
        labelDirY == IF isLeftRight THEN <<0, 0, sides[4]>>
                     ELSE <<sides[3], 0, 0>>
        zX == IF sides[5] = -1 THEN min[1] - offsetX
              ELSE min[1] + size[1] + offsetX
        zY == IF sides[6] = -1 THEN min[2] - offsetY
              ELSE min[2] + size[2] + offsetY
        startZ == IF reverseZ THEN <<zX, zY, min[3] + size[3]>>
                  ELSE <<zX, zY, min[3]>>
        endZ == IF reverseZ THEN <<zX, zY, min[3]>>
                ELSE <<zX, zY, min[3] + size[3]>>
        labelDirZ == IF isTopBottom THEN <<sides[5], 0, 0>>
                     ELSE <<0, sides[6], 0>>
    IN AxisBlocks(AxisBlock(startX, endX, labelDirX, size[1], maxDim),
                  AxisBlock(startY, endY, labelDirY, size[2], maxDim),
                  AxisBlock(startZ, endZ, labelDirZ, size[3], maxDim),
                  [x |-> reverseX, y |-> reverseY, z |-> reverseZ])

\* The bounding boxes of the objects loaded: size (10, 4, 2) around the
\* origin, size (3, 1.5, 0.5) with a corner at the origin, and a flat
\* object of size (10, 4, 0), whose Z axis is degenerate.
MainBox == Box(<<-5 * Scale, -2 * Scale, -Scale>>,
               <<10 * Scale, 4 * Scale, 2 * Scale>>)
SmallBox == Box(<<0, 0, 0>>, <<3 * Scale, 15000, 5000>>)
FlatBox == Box(<<-5 * Scale, -2 * Scale, 0>>, <<10 * Scale, 4 * Scale, 0>>)
Boxes == {MainBox, SmallBox, FlatBox}

\* What the axis blocks of setScaleRuler yield, tabulated for each of the
\* objects and each view direction.
BuiltAxes ==
    [p \in Boxes \X Directions |-> BuildAxes(p[1], p[2])] @@ <<>>

\* lastRulerLabels = null, and the labels the host passed last.  The unit
\* factor is the fraction num / den, or undefined.
NoFactor == [defined |-> FALSE, num |-> 1, den |-> 1]
Factor(num, den) == [defined |-> TRUE, num |-> num, den |-> den]
NoRulerLabels == [exists |-> FALSE, w |-> <<>>, h |-> <<>>, d |-> <<>>,
                  unitFactor |-> NoFactor]

\* entry.rawValue * unitFactor
Converted(rawValue, f) ==
    Num((rawValue * f.num) \div f.den,
        (((rawValue * f.num) % f.den) * 1000000) \div f.den)

(***************************************************************************)
(* State.                                                                  *)
(***************************************************************************)
VARIABLES
    clock,                  \* performance.now(), in ticks
    threeObject,            \* this.threeObject !== null
    loading,                \* a LoadModel whose onFinish/onError is awaited
    loads,                  \* the number of LoadInputFiles calls so far
    justLoaded,             \* this.justLoaded
    camera,                 \* the viewer's camera: eye, center, up
    rulerGroup,             \* the ruler group, or NoGroup
    extras,                 \* the extra objects the viewer shows, in order
    rulerOpacity,           \* the factor last applied to the group's materials
    currentViewDirection,
    currentRulerMeshIndex,
    sessions,               \* the closures of the transitions, by slot
    newest,                 \* the slot of the transition started last
    pending,                \* requestAnimationFrame queue of the next frame
    running,                \* callbacks of the frame being run, in order
    last,                   \* the handler that ran last (observation only)
    box,                    \* the bounding box of the loaded object
    rulerTickSprites,       \* the entries of the tick number labels
    rulerLabelSprites,      \* the sprites of the three dimension labels
    lastRulerLabels,        \* the labels the host passed last
    probe,                  \* the last call of a pure helper (observation only)
    autoRotateId,           \* the handle of the pending tick, or NoHandle
    autoRotatePrev,         \* the time of the last tick, or NoTime
    hSpeed,                 \* the hSpeed the tick closure captured
    handles                 \* the tick requests made so far

vars == <<clock, threeObject, loading, loads, justLoaded, camera, rulerGroup,
          extras,
          rulerOpacity, currentViewDirection, currentRulerMeshIndex,
          sessions, newest, pending, running, last, box, rulerTickSprites,
          rulerLabelSprites, lastRulerLabels, probe, autoRotateId,
          autoRotatePrev, hSpeed, handles>>

\* The variables only startAutoRotate, its tick and stopAutoRotate write.
rotateVars == <<autoRotateId, autoRotatePrev, hSpeed, handles>>

\* autoRotateId = null and autoRotatePrev = null.
NoHandle == 0
NoTime == -1

\* The variables only the overlay functions and the helpers write.
overlayVars == <<box, rulerTickSprites, rulerLabelSprites, lastRulerLabels,
                 probe>>

\* No object, hence no bounding box, and no helper call.
NoBox == Box(<<0, 0, 0>>, <<0, 0, 0>>)
NoProbe == [op |-> "none", in |-> <<>>, out |-> <<>>]

\* rulerGroup = null, and a ruler group: the view direction and target it
\* was built for, its three axis rulers and their reverse flags.
NoGroup ==
    [exists |-> FALSE, dir |-> "front", mesh |-> Undefined, axes |-> NoAxes,
     reverse |-> [x |-> FALSE, y |-> FALSE, z |-> FALSE]]

\* The overlay as the host sees it: whether a group is shown and for which
\* view direction, its reverse flags, the two ends of each ruler, the
\* rawValues of the tick entries and the texts of the dimension labels,
\* with the cached labels, the view direction and the bounding box; and
\* the overlay of the initial state.
Overlay ==
    [exists |-> rulerGroup.exists, dir |-> rulerGroup.dir,
     reverse |-> rulerGroup.reverse,
     ends |-> [k \in {"x", "y", "z"} |->
                 <<rulerGroup.axes[k].start, rulerGroup.axes[k].end>>],
     rawValues |-> [k \in DOMAIN rulerTickSprites |->
                      rulerTickSprites[k].rawValue],
     texts |-> [k \in {"x", "y", "z"} |-> rulerLabelSprites[k].text],
     cached |-> lastRulerLabels,
     direction |-> currentViewDirection, box |-> box]
NoOverlay ==
    [exists |-> FALSE, dir |-> "front",
     reverse |-> [x |-> FALSE, y |-> FALSE, z |-> FALSE],
     ends |-> [k \in {"x", "y", "z"} |-> <<<<0, 0, 0>>, <<0, 0, 0>>>>],
     rawValues |-> <<>>,
     texts |-> [k \in {"x", "y", "z"} |-> <<>>],
     cached |-> NoRulerLabels, direction |-> "front", box |-> NoBox]

Slots == 1..MaxSessions

\* A slot that holds no closure.
NoSession ==
    [kind |-> "none", direction |-> "front", c |-> Origin, dist |-> 0,
     targetEye |-> Origin, startEye |-> Origin, startUp |-> Origin,
     upVec |-> Origin, hasRuler |-> FALSE, rulerRebuilt |-> FALSE,
     startTime |-> 0, alive |-> FALSE,
     solo |-> FALSE, sawHalf |-> FALSE, rebuilds |-> 0, unloadedAtHalf |-> FALSE,
     loadedAtStart |-> FALSE, before |-> NoOverlay]

NoOp == [op |-> "init", slot |-> 0, raw |-> 0, arg |-> "", stale |-> FALSE,
         built |-> 0, repeat |-> FALSE, raised |-> FALSE]

Alive == {i \in Slots : sessions[i].alive}

(***************************************************************************)
(* The closure state the handlers share, as one record, so that a handler  *)
(* that calls another is the composition of the two.                       *)
(***************************************************************************)
App ==
    [threeObject |-> threeObject, justLoaded |-> justLoaded,
     camera |-> camera, rulerGroup |-> rulerGroup, extras |-> extras,
     rulerOpacity |-> rulerOpacity,
     currentViewDirection |-> currentViewDirection,
     currentRulerMeshIndex |-> currentRulerMeshIndex,
     box |-> box, rulerTickSprites |-> rulerTickSprites,
     rulerLabelSprites |-> rulerLabelSprites,
     lastRulerLabels |-> lastRulerLabels,
     built |-> 0]

Commit(a) ==
    /\ threeObject' = a.threeObject
    /\ justLoaded' = a.justLoaded
    /\ camera' = a.camera
    /\ rulerGroup' = a.rulerGroup
    /\ extras' = a.extras
    /\ rulerOpacity' = a.rulerOpacity
    /\ currentViewDirection' = a.currentViewDirection
    /\ currentRulerMeshIndex' = a.currentRulerMeshIndex
    /\ rulerTickSprites' = a.rulerTickSprites
    /\ rulerLabelSprites' = a.rulerLabelSprites
    /\ lastRulerLabels' = a.lastRulerLabels

\* A setRulerGroupOpacity that ignores its factor and leaves the materials
\* fully opaque.
SetRulerGroupOpacityOpaque(a, factor) ==
    IF ~a.rulerGroup.exists THEN a ELSE [a EXCEPT !.rulerOpacity = One]

\* setRulerGroupOpacity(group, factor), called with the current rulerGroup.
SetRulerGroupOpacity(a, factor) ==
    IF ~a.rulerGroup.exists THEN a ELSE [a EXCEPT !.rulerOpacity = factor]

\* A camera snap that leaves justLoaded set.
SnapToFrontKeepingJustLoaded(a) ==
    LET cam == a.camera
        dist == VLen(VSub(cam.eye, cam.center))
    IN [a EXCEPT !.camera = [eye |-> VAdd(cam.center, <<0, 0, dist>>),
                             center |-> cam.center,
                             up |-> <<0, One, 0>>],
                 !.currentViewDirection = "front"]

\* The camera snap of the first setScaleRuler(true) after a load.
SnapToFront(a) ==
    LET cam == a.camera
        dist == VLen(VSub(cam.eye, cam.center))
    IN [a EXCEPT !.justLoaded = FALSE,
                 !.camera = [eye |-> VAdd(cam.center, <<0, 0, dist>>),
                             center |-> cam.center,
                             up |-> <<0, One, 0>>],
                 !.currentViewDirection = "front"]

\* An updateRulerLabels that stores the converted value back into the
\* entry, so that a later conversion starts from it.
UpdateRulerLabelsCompounding(a, w, h, d, f) ==
    LET relabel(sprite, text) ==
            IF sprite.exists THEN [sprite EXCEPT !.text = text] ELSE sprite
        sprites == a.rulerLabelSprites
    IN [a EXCEPT
          !.lastRulerLabels = [exists |-> TRUE, w |-> w, h |-> h, d |-> d,
                               unitFactor |-> f],
          !.rulerLabelSprites = [x |-> relabel(sprites.x, w),
                                 y |-> relabel(sprites.y, h),
                                 z |-> relabel(sprites.z, d)],
          !.rulerTickSprites =
              IF f.defined
              THEN [i \in DOMAIN a.rulerTickSprites |->
                      [a.rulerTickSprites[i] EXCEPT
                         !.rawValue =
                             Converted(a.rulerTickSprites[i].rawValue, f).n,
                         !.text = FormatTickNum(
                                      Converted(a.rulerTickSprites[i].rawValue,
                                                f),
                                      TRUE)]]
              ELSE a.rulerTickSprites]

\* window.updateRulerLabels(widthLabel, heightLabel, depthLabel, unitFactor)
UpdateRulerLabels(a, w, h, d, f) ==
    LET relabel(sprite, text) ==
            IF sprite.exists THEN [sprite EXCEPT !.text = text] ELSE sprite
        sprites == a.rulerLabelSprites
    IN [a EXCEPT
          !.lastRulerLabels = [exists |-> TRUE, w |-> w, h |-> h, d |-> d,
                               unitFactor |-> f],
          !.rulerLabelSprites = [x |-> relabel(sprites.x, w),
                                 y |-> relabel(sprites.y, h),
                                 z |-> relabel(sprites.z, d)],
          !.rulerTickSprites =
              IF f.defined
              THEN [i \in DOMAIN a.rulerTickSprites |->
                      [a.rulerTickSprites[i] EXCEPT
                         !.text = FormatTickNum(
                                      Converted(a.rulerTickSprites[i].rawValue,
                                                f),
                                      TRUE)]]
              ELSE a.rulerTickSprites]

\* The group setScaleRuler builds: for the current view direction and the
\* target (the whole object).
NewGroup(a, meshIndex, b) ==
    [exists |-> TRUE, dir |-> a.currentViewDirection, mesh |-> meshIndex,
     axes |-> b.axes, reverse |-> b.reverse]

\* The build of setScaleRuler: the group gets fresh materials (opacity
\* factor 1), the tick entries are pushed to rulerTickSprites, the
\* dimension labels are stored, and the group becomes rulerGroup and is
\* added to the viewer (AddExtraObject).
AddRuler(a, meshIndex, b) ==
    [a EXCEPT
       !.rulerGroup = NewGroup(a, meshIndex, b),
       !.extras = Append(a.extras, NewGroup(a, meshIndex, b)),
       !.rulerTickSprites =
           a.rulerTickSprites \o b.entries.x \o b.entries.y \o b.entries.z,
       !.rulerLabelSprites = b.labels,
       !.rulerOpacity = One,
       !.built = a.built + 1]

\* A setScaleRuler that does not apply the cached labels again.
ReapplyLabelsNever(a) == a

\* "if (lastRulerLabels) window.updateRulerLabels(...)" at the end of
\* setScaleRuler.
ReapplyLabels(a) ==
    LET l == a.lastRulerLabels
    IN IF l.exists THEN UpdateRulerLabels(a, l.w, l.h, l.d, l.unitFactor)
       ELSE a

BuildRuler(a, meshIndex) ==
    ReapplyLabels(AddRuler(a, meshIndex,
                           BuiltAxes[<<a.box, a.currentViewDirection>>]))

\* this.viewer.ClearExtra(): the viewer shows no extra object.
ClearExtra(shown) == <<>>

\* A disable branch that leaves the dimension label sprites and the tick
\* entries in place.
DisableRulerKeepingSprites(a) ==
    IF a.rulerGroup.exists
    THEN [a EXCEPT !.extras = ClearExtra(a.extras), !.rulerGroup = NoGroup]
    ELSE a

\* setScaleRuler, "if (!enabled)": the group is removed and the sprites
\* are forgotten.
DisableRuler(a) ==
    IF a.rulerGroup.exists
    THEN [a EXCEPT !.extras = ClearExtra(a.extras),
                   !.rulerGroup = NoGroup,
                   !.rulerLabelSprites = NoLabelSprites,
                   !.rulerTickSprites = <<>>]
    ELSE a

\* An enable branch that forgets the existing group without removing it
\* from the viewer.
RemoveExistingWithoutClear(a) ==
    IF a.rulerGroup.exists
    THEN [a EXCEPT !.rulerGroup = NoGroup, !.rulerTickSprites = <<>>]
    ELSE a

\* setScaleRuler, "Remove existing ruler if any".
RemoveExisting(a) ==
    IF a.rulerGroup.exists
    THEN [a EXCEPT !.extras = ClearExtra(a.extras),
                   !.rulerGroup = NoGroup,
                   !.rulerTickSprites = <<>>]
    ELSE a

\* A setScaleRuler that stores the mesh index before it tests whether an
\* object is loaded.
SetScaleRulerLateGuard(a, enabled, meshIndex) ==
    LET a1 == [a EXCEPT !.currentRulerMeshIndex = meshIndex]
    IN IF ~a.threeObject THEN a1
       ELSE IF ~enabled
       THEN IF a1.rulerGroup.exists
            THEN DisableRuler(a1)
            ELSE a1
       ELSE
         LET a2 == IF a1.justLoaded THEN SnapToFront(a1) ELSE a1
         IN BuildRuler(RemoveExisting(a2), meshIndex)

\* A setScaleRuler that removes the existing group but keeps its tick
\* entries.
SetScaleRulerKeepingTicks(a, enabled, meshIndex) ==
    IF ~a.threeObject THEN a
    ELSE
      LET a1 == [a EXCEPT !.currentRulerMeshIndex = meshIndex]
      IN IF ~enabled
         THEN DisableRuler(a1)
         ELSE
           LET a2 == IF a1.justLoaded THEN SnapToFront(a1) ELSE a1
               a3 == IF a2.rulerGroup.exists
                     THEN [a2 EXCEPT !.extras = ClearExtra(a2.extras),
                                     !.rulerGroup = NoGroup]
                     ELSE a2
           IN BuildRuler(a3, meshIndex)

\* window.setScaleRuler(enabled, meshIndex)
SetScaleRuler(a, enabled, meshIndex) ==
    IF ~a.threeObject THEN a
    ELSE
      LET a1 == [a EXCEPT !.currentRulerMeshIndex = meshIndex]
      IN IF ~enabled
         THEN DisableRuler(a1)
         ELSE
           LET a2 == IF a1.justLoaded THEN SnapToFront(a1) ELSE a1
           IN BuildRuler(RemoveExisting(a2), meshIndex)

(***************************************************************************)
(* One frame of a transition: the animate closure of setCameraDirection    *)
(* and of resetCamera.                                                     *)
(***************************************************************************)
\* Interpolate eye and keep at constant distance: the interpolated point is
\* put back on the sphere of radius dist around the center when curDist > 0.
Reproject(n, c, dist) ==
    LET d == VSub(n, c)
        curDist == VLen(d)
    IN IF curDist > 0 THEN VAdd(c, VMul(VDiv(d, curDist), dist)) ELSE n

\* Interpolate & normalize up vector: divided by uLen when uLen > 0.
NormalizeUp(u) ==
    LET uLen == VLen(u)
    IN IF uLen > 0 THEN VDiv(u, uLen) ELSE u

\* start + (target - start) * t, per coordinate.
Lerp(start, target, t) == VAdd(start, VMul(VSub(target, start), t))

\* The eye and up vector animate writes to the camera for eased progress t.
FrameCamera(s, t) ==
    [eye |-> Reproject(Lerp(s.startEye, s.targetEye, t), s.c, s.dist),
     center |-> s.c,
     up |-> NormalizeUp(Lerp(s.startUp, s.upVec, t))]

\* A rebuild at the midpoint that assigns currentViewDirection only after
\* the new group is built.
RebuildForDirectionLate(a, direction) ==
    SetRulerGroupOpacity(
        [SetScaleRuler(a, TRUE, a.currentRulerMeshIndex)
            EXCEPT !.currentViewDirection = direction],
        0)

\* The rebuild at the midpoint: currentViewDirection = direction;
\* window.setScaleRuler(true, currentRulerMeshIndex);
\* setRulerGroupOpacity(rulerGroup, 0).
RebuildForDirection(a, direction) ==
    SetRulerGroupOpacity(
        SetScaleRuler([a EXCEPT !.currentViewDirection = direction],
                      TRUE, a.currentRulerMeshIndex),
        0)

\* The second half of the crossfade: the group, rebuilt or not, fades in.
FadeIn(first, raw) ==
    IF raw >= Half
    THEN [app |-> SetRulerGroupOpacity(first.app, (raw - Half) * 2),
          rulerRebuilt |-> first.rulerRebuilt]
    ELSE first

\* A crossfade without the rulerRebuilt latch: every frame with raw >= 0.5
\* rebuilds the ruler again.
CrossfadeWithoutLatch(a, s, raw) ==
    IF ~s.hasRuler
    THEN [app |-> a, rulerRebuilt |-> s.rulerRebuilt]
    ELSE
      FadeIn(IF raw < Half
             THEN [app |-> SetRulerGroupOpacity(a, One - raw * 2),
                   rulerRebuilt |-> s.rulerRebuilt]
             ELSE [app |-> RebuildForDirection(a, s.direction),
                   rulerRebuilt |-> s.rulerRebuilt],
             raw)

\* Ruler crossfade: fade out first half, rebuild at midpoint, fade in second
\* half.  The result is the shared state and the closure's rulerRebuilt.
Crossfade(a, s, raw) ==
    IF ~s.hasRuler
    THEN [app |-> a, rulerRebuilt |-> s.rulerRebuilt]
    ELSE
      FadeIn(IF raw < Half
             THEN [app |-> SetRulerGroupOpacity(a, One - raw * 2),
                   rulerRebuilt |-> s.rulerRebuilt]
             ELSE IF ~s.rulerRebuilt
             THEN [app |-> RebuildForDirection(a, s.direction),
                   rulerRebuilt |-> TRUE]
             ELSE [app |-> a, rulerRebuilt |-> s.rulerRebuilt],
             raw)

\* An end of the transition that leaves the group at the factor the
\* rebuild gave it, 0, instead of 1.
CompleteTransparent(a, s, rulerRebuilt) ==
    LET a1 == IF ~rulerRebuilt
              THEN [a EXCEPT !.currentViewDirection = s.direction]
              ELSE a
    IN IF s.hasRuler
       THEN SetRulerGroupOpacity(
                IF ~rulerRebuilt
                THEN SetScaleRuler(a1, TRUE, a1.currentRulerMeshIndex)
                ELSE a1,
                0)
       ELSE a1

\* The else branch of "if (raw < 1)": the end of the transition.
Complete(a, s, rulerRebuilt) ==
    LET a1 == IF ~rulerRebuilt
              THEN [a EXCEPT !.currentViewDirection = s.direction]
              ELSE a
    IN IF s.hasRuler
       THEN SetRulerGroupOpacity(
                IF ~rulerRebuilt
                THEN SetScaleRuler(a1, TRUE, a1.currentRulerMeshIndex)
                ELSE a1,
                One)
       ELSE a1

\* What a frame leaves: the shared state a2 after it, the closure after
\* it, and whether it called requestAnimationFrame(animate) again; a is
\* the shared state before the frame.
Outcome(a, s, raw, rulerRebuilt, a2) ==
    [app |-> a2,
     raw |-> raw,
     again |-> raw < One,
     sess |-> [s EXCEPT !.rulerRebuilt = rulerRebuilt,
                        !.alive = raw < One,
                        !.sawHalf = s.sawHalf \/ raw >= Half,
                        !.rebuilds = s.rebuilds + a2.built,
                        !.unloadedAtHalf =
                            \/ s.unloadedAtHalf
                            \/ (raw >= Half /\ ~s.sawHalf /\ ~a.threeObject)]]

\* "if (raw < 1) requestAnimationFrame(animate); else ...", after the
\* crossfade x of the frame.
EndFrame(a, s, raw, x) ==
    Outcome(a, s, raw, x.rulerRebuilt,
            IF raw < One THEN x.app ELSE Complete(x.app, s, x.rulerRebuilt))

\* animate(now): the shared state after the frame, the closure after it,
\* and whether it called requestAnimationFrame(animate) again.
Animate(a, s, now) ==
    LET raw == RawOf(now, s.startTime)
        t == Ease(raw)
        a1 == [a EXCEPT !.camera = FrameCamera(s, t)]
    IN EndFrame(a, s, raw, Crossfade(a1, s, raw))

\* requestAnimationFrame(callback): the callback joins the queue of the
\* next frame, after the callbacks registered before it.
RequestAnimationFrame(queue, slot) == Append(queue, slot)

\* The queue entry of the tick callback requested under handle h, and
\* cancelAnimationFrame(h): the request leaves the queue.
TickCallback(h) == -h
IsTick(callback) == callback < 0
CancelAnimationFrame(queue, h) ==
    SelectSeq(queue, LAMBDA callback : callback # TickCallback(h))

(***************************************************************************)
(* Initial state: after the constructor, Load and RegisterBridgeFunctions. *)
(***************************************************************************)
Constructed ==
    /\ clock = 0
    /\ threeObject = FALSE
    /\ loading = FALSE
    /\ loads = 0
    /\ justLoaded = FALSE
    /\ camera = InitCamera
    /\ rulerGroup = NoGroup
    /\ extras = <<>>
    /\ rulerOpacity = One
    /\ currentViewDirection = "front"
    /\ currentRulerMeshIndex = Undefined
    /\ sessions = [i \in Slots |-> NoSession]
    /\ newest = 0
    /\ pending = <<>>
    /\ running = <<>>
    /\ last = NoOp
    /\ box = NoBox
    /\ rulerTickSprites = <<>>
    /\ rulerLabelSprites = NoLabelSprites
    /\ lastRulerLabels = NoRulerLabels
    /\ autoRotateId = NoHandle
    /\ autoRotatePrev = NoTime
    /\ hSpeed = 0
    /\ handles = 0

Init == Constructed /\ probe = NoProbe

Idle == running = <<>>

Observe(op, slot, raw, arg, stale, built) ==
    [op |-> op, slot |-> slot, raw |-> raw, arg |-> arg, stale |-> stale,
     built |-> built, repeat |-> FALSE, raised |-> FALSE]

\* The slots no transition has used yet, and the one the next transition
\* takes.
Unused == {i \in Slots : sessions[i].kind = "none"}
FreeSlot == CHOOSE i \in Unused : \A j \in Unused : i <= j

\* The closure variables of a transition started now towards targetEye and
\* upVec: what setCameraDirection and resetCamera capture before the first
\* requestAnimationFrame.
NewSession(kind, direction, targetEye, upVec) ==
    [kind |-> kind, direction |-> direction,
     c |-> camera.center,
     dist |-> VLen(VSub(camera.eye, camera.center)),
     targetEye |-> targetEye,
     startEye |-> camera.eye,
     startUp |-> camera.up,
     upVec |-> upVec,
     hasRuler |-> rulerGroup.exists,
     rulerRebuilt |-> FALSE,
     startTime |-> clock,
     alive |-> TRUE,
     solo |-> Alive = {}, sawHalf |-> FALSE, rebuilds |-> 0,
     unloadedAtHalf |-> FALSE, loadedAtStart |-> threeObject,
     before |-> Overlay]

\* A transition start that also stops the auto-rotate loop.
StartSessionStoppingAutoRotate(s, op, arg) ==
    /\ sessions' = [i \in Slots |->
                      IF i = FreeSlot THEN s
                      ELSE IF sessions[i].alive
                      THEN [sessions[i] EXCEPT !.solo = FALSE]
                      ELSE sessions[i]]
    /\ newest' = FreeSlot
    /\ pending' = RequestAnimationFrame(
                      CancelAnimationFrame(pending, autoRotateId), FreeSlot)
    /\ autoRotateId' = NoHandle
    /\ autoRotatePrev' = NoTime
    /\ UNCHANGED <<hSpeed, handles>>
    /\ last' = Observe(op, FreeSlot, 0, arg, FALSE, 0)
    /\ UNCHANGED <<clock, threeObject, loading, loads, justLoaded, camera,
                   rulerGroup, extras, rulerOpacity, currentViewDirection,
                   currentRulerMeshIndex, running, overlayVars>>

\* The start of a transition: the closure s takes the free slot and its
\* animate is registered for the next frame.
StartSession(s, op, arg) ==
    /\ sessions' = [i \in Slots |->
                      IF i = FreeSlot THEN s
                      ELSE IF sessions[i].alive
                      THEN [sessions[i] EXCEPT !.solo = FALSE]
                      ELSE sessions[i]]
    /\ newest' = FreeSlot
    /\ pending' = RequestAnimationFrame(pending, FreeSlot)
    /\ last' = Observe(op, FreeSlot, 0, arg, FALSE, 0)
    /\ UNCHANGED <<clock, threeObject, loading, loads, justLoaded, camera,
                   rulerGroup, extras, rulerOpacity, currentViewDirection,
                   currentRulerMeshIndex, running, overlayVars, rotateVars>>

\* Whether the token is a case of the switch (default: return).
KnownDirection(token) == token \in Directions

\* The body of setCameraDirection after the switch, for a direction of the
\* table; token is the argument the host passed.
StartDirection(direction, token) ==
    LET dist == VLen(VSub(camera.eye, camera.center))
        targetEye == VAdd(camera.center, VTimes(DirVec(direction), dist))
    IN StartSession(
           NewSession("direction", direction, targetEye, UpVec(direction)),
           "setCameraDirection", token)

\* A setCameraDirection whose switch falls back to 'front' for an unknown
\* token instead of returning.
SetCameraDirectionFallback(token) ==
    /\ Idle
    /\ Unused # {}
    /\ StartDirection(IF KnownDirection(token) THEN token ELSE "front", token)

\* window.setCameraDirection(direction)
SetCameraDirection(token) ==
    /\ Idle
    /\ IF KnownDirection(token)
       THEN /\ Unused # {}
            /\ StartDirection(token, token)
       ELSE /\ last' = Observe("setCameraDirection", 0, 0, token, FALSE, 0)
            /\ UNCHANGED <<clock, threeObject, loading, loads, justLoaded, camera,
                           rulerGroup, extras, rulerOpacity, currentViewDirection,
                           currentRulerMeshIndex, sessions, newest, pending,
                           running, overlayVars, rotateVars>>

\* targetEye of resetCamera: eye level with the ruler on, 15 degrees above
\* the horizontal with the ruler off.
ResetTarget(c, dist, rulerOn) ==
    IF rulerOn
    THEN VAdd(c, <<0, 0, dist>>)
    ELSE VAdd(c, <<0, Mul(Sin15, dist), Mul(Cos15, dist)>>)

\* window.resetCamera()
ResetCamera ==
    /\ Idle
    /\ Unused # {}
    /\ LET dist == VLen(VSub(camera.eye, camera.center))
           targetEye == ResetTarget(camera.center, dist, rulerGroup.exists)
       IN StartSession(NewSession("reset", "front", targetEye, <<0, One, 0>>),
                       "resetCamera", "")

\* The state after a call setScaleRuler(enabled, ...) of the host that
\* left the shared state a.
AfterSetScaleRuler(enabled, a) ==
    /\ Commit(a)
    /\ last' = [Observe("setScaleRuler", 0, 0,
                         IF enabled THEN "true" ELSE "false", FALSE, a.built)
                    EXCEPT !.repeat =
                        /\ enabled /\ a.built = 1
                        /\ last.op = "setScaleRuler"
                        /\ last.arg = "true" /\ last.built = 1]

\* window.setScaleRuler(enabled, meshIndex), called by the host.
CallSetScaleRuler(enabled, meshIndex) ==
    /\ Idle
    /\ AfterSetScaleRuler(enabled, SetScaleRuler(App, enabled, meshIndex))
    /\ UNCHANGED <<clock, loading, loads, sessions, newest, pending, running,
                   box, probe, rotateVars>>

\* The label texts and the unit factors the host passes to
\* updateRulerLabels: no factor, 1 / 25.4 (mm to inch) and 0.1 (mm to cm).
LabelTexts == { <<<<"W">>, <<"H">>, <<"D">>>>, <<<<"w">>, <<"h">>, <<"d">>>> }
UnitFactors == {NoFactor, Factor(10, 254), Factor(1, 10)}

\* window.updateRulerLabels(widthLabel, heightLabel, depthLabel,
\* unitFactor), called by the host.
CallUpdateRulerLabels(texts, f) ==
    /\ Idle
    /\ Commit(UpdateRulerLabels(App, texts[1], texts[2], texts[3], f))
    /\ last' = [Observe("updateRulerLabels", 0, 0, "", FALSE, 0)
                    EXCEPT !.repeat =
                        /\ f.defined /\ lastRulerLabels.exists
                        /\ lastRulerLabels.unitFactor.defined
                        /\ lastRulerLabels.unitFactor # f]
    /\ UNCHANGED <<clock, loading, loads, sessions, newest, pending, running,
                   box, probe, rotateVars>>

\* this.viewer.Clear(): the viewer shows neither the model nor an extra
\* object.
ViewerClear(shown) == <<>>

\* LoadInputFiles: this.viewer.Clear(); this.threeObject = null until the
\* import finishes.
LoadInputFiles ==
    /\ Idle
    /\ loads < MaxLoads
    /\ loads' = loads + 1
    /\ threeObject' = FALSE
    /\ loading' = TRUE
    /\ extras' = ViewerClear(extras)
    /\ last' = Observe("other", 0, 0, "", FALSE, 0)
    /\ UNCHANGED <<clock, justLoaded, camera, rulerGroup, rulerOpacity,
                   currentViewDirection, currentRulerMeshIndex, sessions,
                   newest, pending, running, overlayVars, rotateVars>>

\* onFinish: this.threeObject = threeObject; OnModelFinished(threeObject),
\* for an object with bounding box b.
OnModelFinished(b) ==
    /\ Idle
    /\ loading
    /\ loading' = FALSE
    /\ threeObject' = TRUE
    /\ box' = b
    /\ camera' = LoadCamera
    /\ justLoaded' = TRUE
    /\ last' = Observe("other", 0, 0, "", FALSE, 0)
    /\ UNCHANGED <<clock, loads, rulerGroup, extras, rulerOpacity, currentViewDirection,
                   currentRulerMeshIndex, sessions, newest, pending, running,
                   rulerTickSprites, rulerLabelSprites, lastRulerLabels,
                   probe, rotateVars>>

\* The user moves the camera with the viewer's navigation.
Navigate ==
    /\ Idle
    /\ Alive = {}
    /\ camera' \in NavCameras
    /\ last' = Observe("other", 0, 0, "", FALSE, 0)
    /\ UNCHANGED <<clock, threeObject, loading, loads, justLoaded, rulerGroup, extras,
                   rulerOpacity, currentViewDirection, currentRulerMeshIndex,
                   sessions, newest, pending, running, overlayVars, rotateVars>>

\* The browser starts a frame at time now: the callbacks registered so far
\* will run in registration order, all with the timestamp now.
Frame(now) ==
    /\ Idle
    /\ pending # <<>>
    /\ now > clock
    /\ clock' = now
    /\ running' = pending
    /\ pending' = <<>>
    /\ last' = Observe("other", 0, 0, "", FALSE, 0)
    /\ UNCHANGED <<threeObject, loading, loads, justLoaded, camera, rulerGroup, extras,
                   rulerOpacity, currentViewDirection, currentRulerMeshIndex,
                   sessions, newest, overlayVars, rotateVars>>

\* The state after animate(now) of transition i ran with outcome r.
AfterAnimate(i, r) ==
    /\ Commit(r.app)
    /\ sessions' = [sessions EXCEPT ![i] = r.sess]
    /\ pending' = IF r.again THEN RequestAnimationFrame(pending, i)
                             ELSE pending
    /\ last' = Observe("animate", i, r.raw, sessions[i].direction,
                       newest # i, r.app.built)

\* The next callback of the frame runs: animate(now) of a transition.
RunAnimate ==
    /\ running # <<>>
    /\ Head(running) \in Slots
    /\ AfterAnimate(Head(running),
                    Animate(App, sessions[Head(running)], clock))
    /\ running' = Tail(running)
    /\ UNCHANGED <<clock, loading, loads, newest, box, probe, rotateVars>>

(***************************************************************************)
(* Auto-rotation: startAutoRotate, its tick and stopAutoRotate.  hSpeed is *)
(* counted in quarter turns per half duration of a transition, and the     *)
(* host passes tiltDeg = 0, so that vDelta is 0.                           *)
(***************************************************************************)
\* this.viewer.navigation.Orbit(angle, 0) and Update(): the eye turns
\* around the vertical axis through the center, by quarter turns.
QuarterTurn(v) == <<v[3], v[2], -v[1]>>
RECURSIVE Turned(_, _)
Turned(v, turns) == IF turns = 0 THEN v ELSE Turned(QuarterTurn(v), turns - 1)
Orbit(cam, turns) ==
    [cam EXCEPT !.eye = VAdd(cam.center,
                             Turned(VSub(cam.eye, cam.center), turns % 4))]

\* The values of hSpeed the host passes.
Speeds == {0, 1}

\* A guard that never finds a loop running.
AlreadyRotatingNever == FALSE

\* startAutoRotate, "if (autoRotateId !== null) return;".
AlreadyRotating == autoRotateId # NoHandle

\* A startAutoRotate that runs the first tick at once instead of
\* registering it.
StartAutoRotateEager(speed) ==
    /\ Idle
    /\ autoRotateId # NoHandle \/ handles < MaxHandles
    /\ IF autoRotateId # NoHandle
       THEN /\ last' = Observe("startAutoRotate", 0, speed, "running", FALSE, 0)
            /\ UNCHANGED <<camera, pending, rotateVars>>
       ELSE /\ autoRotatePrev' = clock
            /\ hSpeed' = speed
            /\ handles' = handles + 1
            /\ autoRotateId' = handles + 1
            /\ camera' = Orbit(camera, speed)
            /\ pending' = RequestAnimationFrame(pending,
                                                TickCallback(handles + 1))
            /\ last' = Observe("startAutoRotate", 0, speed, "idle", FALSE, 0)
    /\ UNCHANGED <<clock, threeObject, loading, loads, justLoaded,
                   rulerGroup, extras, rulerOpacity, currentViewDirection,
                   currentRulerMeshIndex, sessions, newest, running,
                   overlayVars>>

\* window.startAutoRotate(hSpeed, tiltDeg), with tiltDeg = 0; the call
\* record keeps the speed passed.
StartAutoRotate(speed) ==
    /\ Idle
    /\ autoRotateId # NoHandle \/ handles < MaxHandles
    /\ IF AlreadyRotating
       THEN /\ last' = Observe("startAutoRotate", 0, speed, "running", FALSE, 0)
            /\ UNCHANGED <<pending, rotateVars>>
       ELSE /\ autoRotatePrev' = clock
            /\ hSpeed' = speed
            /\ handles' = handles + 1
            /\ autoRotateId' = handles + 1
            /\ pending' = RequestAnimationFrame(pending,
                                                TickCallback(handles + 1))
            /\ last' = Observe("startAutoRotate", 0, speed, "idle", FALSE, 0)
    /\ UNCHANGED <<clock, threeObject, loading, loads, justLoaded, camera,
                   rulerGroup, extras, rulerOpacity, currentViewDirection,
                   currentRulerMeshIndex, sessions, newest, running,
                   overlayVars>>

\* A stopAutoRotate that forgets the handle without cancelling the request.
StopAutoRotateWithoutCancel ==
    /\ Idle
    /\ IF autoRotateId # NoHandle
       THEN /\ autoRotateId' = NoHandle
            /\ autoRotatePrev' = NoTime
            /\ last' = Observe("stopAutoRotate", 0, 0, "running", FALSE, 0)
            /\ UNCHANGED pending
       ELSE /\ last' = Observe("stopAutoRotate", 0, 0, "idle", FALSE, 0)
            /\ UNCHANGED <<pending, autoRotateId, autoRotatePrev>>
    /\ UNCHANGED <<clock, threeObject, loading, loads, justLoaded, camera,
                   rulerGroup, extras, rulerOpacity, currentViewDirection,
                   currentRulerMeshIndex, sessions, newest, running,
                   overlayVars, hSpeed, handles>>

\* window.stopAutoRotate()
StopAutoRotate ==
    /\ Idle
    /\ IF autoRotateId # NoHandle
       THEN /\ pending' = CancelAnimationFrame(pending, autoRotateId)
            /\ autoRotateId' = NoHandle
            /\ autoRotatePrev' = NoTime
            /\ last' = Observe("stopAutoRotate", 0, 0, "running", FALSE, 0)
       ELSE /\ last' = Observe("stopAutoRotate", 0, 0, "idle", FALSE, 0)
            /\ UNCHANGED <<pending, autoRotateId, autoRotatePrev>>
    /\ UNCHANGED <<clock, threeObject, loading, loads, justLoaded, camera,
                   rulerGroup, extras, rulerOpacity, currentViewDirection,
                   currentRulerMeshIndex, sessions, newest, running,
                   overlayVars, hSpeed, handles>>

\* The next callback of the frame runs: tick(now) of the auto-rotate loop.
\* A tick that runs after stopAutoRotate finds autoRotatePrev = null,
\* which the subtraction takes for 0.
RunTick ==
    /\ running # <<>>
    /\ IsTick(Head(running))
    /\ handles < MaxHandles
    /\ LET prev == IF autoRotatePrev = NoTime THEN 0 ELSE autoRotatePrev
           dt == clock - prev
       IN camera' = Orbit(camera, (hSpeed * dt) \div (2 * Quarter))
    /\ autoRotatePrev' = clock
    /\ handles' = handles + 1
    /\ autoRotateId' = handles + 1
    /\ pending' = RequestAnimationFrame(pending, TickCallback(handles + 1))
    /\ running' = Tail(running)
    /\ last' = Observe("tick", 0, 0, "", FALSE, 0)
    /\ UNCHANGED <<clock, threeObject, loading, loads, justLoaded,
                   rulerGroup, extras, rulerOpacity, currentViewDirection,
                   currentRulerMeshIndex, sessions, newest, overlayVars,
                   hSpeed>>

\* The directions towards which a transition runs beside the auto-rotate
\* loop, and the time from one frame to the next.
RotateTokens == {"top", "diagonal"}
RotateSteps == {2 * Quarter}

\* Transitions and the auto-rotate loop side by side: the host starts and
\* stops the loop at any time between frames, switches the ruler on and
\* off and starts one transition after another; a frame is half a duration
\* after the previous one, and starts only while a tick can still register
\* again.
RotateNext ==
    \/ \E token \in RotateTokens : Alive = {} /\ SetCameraDirection(token)
    \/ Alive = {} /\ ResetCamera
    \/ \E speed \in Speeds : StartAutoRotate(speed)
    \/ StopAutoRotate
    \/ \E enabled \in BOOLEAN, meshIndex \in MeshIndices :
           CallSetScaleRuler(enabled, meshIndex)
    \/ loads = 0 /\ LoadInputFiles
    \/ OnModelFinished(MainBox)
    \/ \E dt \in RotateSteps : handles < MaxHandles /\ Frame(clock + dt)
    \/ RunAnimate
    \/ RunTick

RotateSpec == Init /\ [][RotateNext]_vars

\* The directions used when two transitions overlap.
OverlapTokens == {"top", "diagonal"}

\* Two transitions, which may overlap, towards OverlapTokens.
Next ==
    \/ \E token \in OverlapTokens : SetCameraDirection(token)
    \/ ResetCamera
    \/ \E enabled \in BOOLEAN, meshIndex \in MeshIndices :
           CallSetScaleRuler(enabled, meshIndex)
    \/ LoadInputFiles
    \/ OnModelFinished(MainBox)
    \/ \E now \in FrameTimes : Frame(now)
    \/ RunAnimate

Spec == Init /\ [][Next]_vars

\* One transition, towards any token, from any camera the user can reach;
\* a token that starts no transition can be passed at any time.
SoloNext ==
    \/ \E token \in Tokens :
           (newest = 0 \/ ~KnownDirection(token)) /\ SetCameraDirection(token)
    \/ newest = 0 /\ ResetCamera
    \/ \E enabled \in BOOLEAN, meshIndex \in MeshIndices :
           CallSetScaleRuler(enabled, meshIndex)
    \/ LoadInputFiles
    \/ OnModelFinished(MainBox)
    \/ Navigate
    \/ \E now \in FrameTimes : Frame(now)
    \/ RunAnimate

SoloSpec == Init /\ [][SoloNext]_vars

\* The frames of a transition that runs alone: each one half of the
\* duration after the previous frame or the start.
RulerSteps == {2 * Quarter}

\* The overlay of different objects: one load, label updates before the
\* first transition, and transitions that follow one another, towards any
\* direction, while the host switches the ruler on and off.
RulerNext ==
    \/ \E direction \in Directions :
           Alive = {} /\ SetCameraDirection(direction)
    \/ \E enabled \in BOOLEAN, meshIndex \in MeshIndices :
           CallSetScaleRuler(enabled, meshIndex)
    \/ \E texts \in LabelTexts, f \in UnitFactors :
           newest = 0 /\ CallUpdateRulerLabels(texts, f)
    \/ loads = 0 /\ LoadInputFiles
    \/ \E b \in Boxes : OnModelFinished(b)
    \/ \E dt \in RulerSteps : Frame(clock + dt)
    \/ RunAnimate

RulerSpec == Init /\ [][RulerNext]_vars

(***************************************************************************)
(* Transitions under a browser that keeps delivering frames: a frame is    *)
(* started whenever a callback is registered, and a callback of a started  *)
(* frame runs.  Transitions start early enough for the frame times of the  *)
(* model to reach their duration.                                          *)
(***************************************************************************)
StartBy == LastFrame * Quarter - DurTicks

LiveNext ==
    \/ \E token \in OverlapTokens :
           clock <= StartBy /\ SetCameraDirection(token)
    \/ clock <= StartBy /\ ResetCamera
    \/ \E enabled \in BOOLEAN, meshIndex \in MeshIndices :
           CallSetScaleRuler(enabled, meshIndex)
    \/ loads = 0 /\ LoadInputFiles
    \/ OnModelFinished(MainBox)
    \/ \E now \in FrameTimes : Frame(now)
    \/ RunAnimate

\* The step by which the next callback of the started frame runs: every
\* step of RunAnimate is one, and no other action shortens running.
RunsCallback ==
    /\ running # <<>>
    /\ Head(running) \in Slots
    /\ running' = Tail(running)

FramesKeepComing ==
    /\ WF_vars(\E now \in FrameTimes : Frame(now))
    /\ WF_running(RunsCallback)

LiveSpec == Init /\ [][LiveNext]_vars /\ FramesKeepComing

(***************************************************************************)
(* The theme switch.  updateRulerTheme is a function declaration inside a  *)
(* class method, called without a receiver: its body is strict code and    *)
(* its this is undefined.                                                  *)
(***************************************************************************)
\* "entry.sprite.userData.labelText || formatTickNum(entry.rawValue)": no
\* code sets userData.labelText on a tick sprite, so the text painted is
\* formatTickNum(entry.rawValue).
ThemeTickText(entry) == FormatTickNum(Num(entry.rawValue, 0), TRUE)

\* updateRulerTheme(): with no group it returns at once; with a group the
\* dimension labels are painted again with their own labelText, the tick
\* labels with ThemeTickText, and "this.viewer.Render()" then reads viewer
\* of undefined, which raises a TypeError.
UpdateRulerTheme(a) ==
    IF ~a.rulerGroup.exists
    THEN [app |-> a, raised |-> FALSE]
    ELSE [app |-> [a EXCEPT !.rulerTickSprites =
                       [k \in DOMAIN a.rulerTickSprites |->
                           [a.rulerTickSprites[k] EXCEPT
                              !.text = ThemeTickText(a.rulerTickSprites[k])]]],
          raised |-> TRUE]

\* What a call setTheme(isDark) that left the outcome r is seen to do.
AfterSetTheme(isDark, r) ==
    /\ Commit(r.app)
    /\ last' = [Observe("setTheme", 0, 0,
                         IF isDark THEN "dark" ELSE "light", FALSE, 0)
                    EXCEPT !.raised = r.raised]

\* window.setTheme(isDark), called by the host: currentIsDark and
\* ApplyTheme change colours only; the call ends with updateRulerTheme().
SetTheme(isDark) ==
    /\ Idle
    /\ AfterSetTheme(isDark, UpdateRulerTheme(App))
    /\ UNCHANGED <<clock, loading, loads, sessions, newest, pending, running,
                   box, probe, rotateVars>>

\* The overlay, its labels and the theme, with no transition, over the
\* loads of MaxLoads models.
ThemeNext ==
    \/ \E enabled \in BOOLEAN, meshIndex \in MeshIndices :
           CallSetScaleRuler(enabled, meshIndex)
    \/ \E texts \in LabelTexts, f \in UnitFactors :
           CallUpdateRulerLabels(texts, f)
    \/ \E isDark \in BOOLEAN : SetTheme(isDark)
    \/ LoadInputFiles
    \/ \E b \in Boxes : OnModelFinished(b)

ThemeSpec == Init /\ [][ThemeNext]_vars

(***************************************************************************)
(* The helpers niceStep and formatTickNum on their own: the arguments of   *)
(* one call are drawn first, then the helper is applied.                   *)
(***************************************************************************)
\* The axis lengths go from 0.1 to MaxLength tenths; the label footprints
\* (labelWidth, in 1e-6) make every targetDivs from 2 to 10 occur.
MaxLength == 400
Lengths == {k * (Scale \div 10) : k \in 1..MaxLength}
Footprints == {1, 250000, 577500, 1000000, 2000000, 5000000, 100000000}

\* The numbers passed to formatTickNum: whole parts and fractions around
\* the integers, the hundredths and the halves of a hundredth, of both
\* signs, exactly or moved by 5e-10 or 2e-9.
WholeParts == {0, 1, 9, 10, 99}
Fractions == {0, 1, 40, 49, 50, 51, 100, 949, 950, 995, 1000, 1250, 4999,
              5000, 9949, 9950, 9999}
Offsets == {-20, -5, 0, 5, 20}
Signs == {-1, 1}

ProbeInputs ==
    {[op |-> "length", in |-> <<length, labelWidth6>>, out |-> <<>>] :
         length \in Lengths, labelWidth6 \in Footprints}
    \cup {[op |-> "number", in |-> <<sign * (w * Scale + f), e>>,
           out |-> <<>>] :
              sign \in Signs, w \in WholeParts, f \in Fractions,
              e \in Offsets}

PlannerInit == Constructed /\ probe \in ProbeInputs

\* step = niceStep(length, targetDivs), as addGraduatedTicks calls it.
CallNiceStep ==
    /\ probe.op = "length"
    /\ probe' = [op |-> "niceStep", in |-> probe.in,
                 out |-> <<TargetDivs(probe.in[1], probe.in[2]),
                           PlanStep(probe.in[1], probe.in[2])>>]
    /\ UNCHANGED <<clock, threeObject, loading, loads, justLoaded, camera,
                   rulerGroup, extras, rulerOpacity, currentViewDirection,
                   currentRulerMeshIndex, sessions, newest, pending, running,
                   last, box, rulerTickSprites, rulerLabelSprites,
                   lastRulerLabels, rotateVars>>

\* text = formatTickNum(val)
CallFormatTickNum ==
    /\ probe.op = "number"
    /\ \E tieUp \in BOOLEAN :
           probe' = [op |-> "formatTickNum", in |-> probe.in,
                     out |-> FormatTickNum(Num(probe.in[1], probe.in[2]),
                                           tieUp)]
    /\ UNCHANGED <<clock, threeObject, loading, loads, justLoaded, camera,
                   rulerGroup, extras, rulerOpacity, currentViewDirection,
                   currentRulerMeshIndex, sessions, newest, pending, running,
                   last, box, rulerTickSprites, rulerLabelSprites,
                   lastRulerLabels, rotateVars>>

\* formatTickNum(parseNumber(text)) of a text formatTickNum returned.
CallReformat ==
    /\ probe.op = "formatTickNum"
    /\ \E tieUp \in BOOLEAN :
           probe' = [op |-> "reformat", in |-> probe.out,
                     out |-> FormatTickNum(ParseNumber(probe.out), tieUp)]
    /\ UNCHANGED <<clock, threeObject, loading, loads, justLoaded, camera,
                   rulerGroup, extras, rulerOpacity, currentViewDirection,
                   currentRulerMeshIndex, sessions, newest, pending, running,
                   last, box, rulerTickSprites, rulerLabelSprites,
                   lastRulerLabels, rotateVars>>

\* addGraduatedTicks for the axis from the origin along X whose step was
\* planned: what it adds, with the step and showMinor it used.
CallAddGraduatedTicks ==
    /\ probe.op = "niceStep"
    /\ probe' = [op |-> "addGraduatedTicks", in |-> probe.in,
                 out |-> [step |-> probe.out[2],
                          showMinor |-> ShowMinor(probe.out[2], probe.in[2]),
                          added |-> GraduatedTicks(
                              PlanTicks(probe.in[1], probe.in[2]),
                              <<0, 0, 0>>, <<1, 0, 0>>, <<0, 0, 0>>,
                              <<TickEntry(<<probe.in[1], 0, 0>>,
                                          probe.in[1])>>)]]
    /\ UNCHANGED <<clock, threeObject, loading, loads, justLoaded, camera,
                   rulerGroup, extras, rulerOpacity, currentViewDirection,
                   currentRulerMeshIndex, sessions, newest, pending, running,
                   last, box, rulerTickSprites, rulerLabelSprites,
                   lastRulerLabels, rotateVars>>

PlannerNext ==
    \/ CallNiceStep
    \/ CallFormatTickNum
    \/ CallReformat
    \/ CallAddGraduatedTicks

PlannerSpec == PlannerInit /\ [][PlannerNext]_vars

(***************************************************************************)
(* Properties.                                                             *)
(***************************************************************************)
\* The rounding allowed when a length is compared with the length it
\* should have, in units.
Tolerance == 8

\* The closure that ran in the last step, when that step was an animate.
LastSession == sessions[last.slot]

\* C1: at most one directed transition session has a pending frame
\* callback in any reachable state.
AtMostOneSessionInFlight == Cardinality(Alive) <= 1

\* C2: a frame callback of a superseded session (a transition was started
\* after it) writes neither the camera, nor the overlay and its opacity, nor
\* currentViewDirection.
StaleFrameIsNoOp ==
    [][(running # <<>> /\ last'.op = "animate" /\ last'.stale)
         => UNCHANGED <<camera, rulerGroup, rulerOpacity,
                        currentViewDirection>>]_vars

\* C3: a session that started with a ruler has rebuilt the overlay exactly
\* once as soon as one of its frames had raw >= 0.5, and not at all before.
RebuildsExactlyOnce ==
    \A i \in Slots :
        sessions[i].hasRuler =>
            sessions[i].rebuilds = IF sessions[i].sawHalf THEN 1 ELSE 0

\* C3 as amended: the same, except that the rebuild is skipped (and not
\* made up for later) when no object is loaded in the first frame with
\* raw >= 0.5.
RebuildsOnceWhileLoaded ==
    \A i \in Slots :
        sessions[i].hasRuler =>
            sessions[i].rebuilds =
                IF sessions[i].sawHalf /\ ~sessions[i].unloadedAtHalf
                THEN 1 ELSE 0

\* C3 witness: a session with a ruler whose frames jumped from raw < 0.5
\* to raw = 1 has ended with exactly one rebuild, made in that last frame.
JumpedSessionRebuiltOnce ==
    /\ last.op = "animate" /\ last.raw = One /\ last.built = 1
    /\ LastSession.hasRuler /\ LastSession.rebuilds = 1
    /\ ~LastSession.alive

\* The factor the crossfade prescribes for raw progress raw.
FadeFactor(raw) == IF raw < Half THEN One - 2 * raw ELSE 2 * (raw - Half)

\* C4: after each frame of a session that started with an overlay, the
\* overlay (if there is one) carries the factor 1 - 2*raw for raw < 0.5 and
\* 2*(raw - 0.5) for raw >= 0.5; an overlay rebuilt in a frame with
\* raw = 0.5 is left with factor 0.
OpacityFollowsRaw ==
    (last.op = "animate" /\ LastSession.hasRuler /\ rulerGroup.exists)
        => /\ rulerOpacity = FadeFactor(last.raw)
           /\ (last.built > 0 /\ last.raw = Half) => rulerOpacity = 0

\* C4 witness: the overlay was rebuilt by a frame with raw = 0.5 and is
\* fully transparent after it.
RebuiltAtHalfIsTransparent ==
    /\ last.op = "animate" /\ LastSession.hasRuler /\ rulerGroup.exists
    /\ last.raw = Half /\ last.built = 1 /\ rulerOpacity = 0

\* C4 witness of the fade-in: a later frame with raw = 0.75 leaves 0.5.
FadedInAtThreeQuarters ==
    /\ last.op = "animate" /\ LastSession.hasRuler /\ rulerGroup.exists
    /\ last.raw = 3 * Quarter /\ last.built = 0 /\ 2 * rulerOpacity = One

\* C5: after every frame of a transition the eye is at the distance dist
\* captured at the start of the transition from the captured center.
EyeStaysOnOrbit ==
    last.op = "animate" =>
        Abs(VLen(VSub(camera.eye, LastSession.c)) - LastSession.dist)
            <= Tolerance

\* C6: after every frame of a transition the up vector has unit length.
UpStaysUnit ==
    last.op = "animate" => Abs(VLen(camera.up) - One) <= Tolerance

\* C7: when a setCameraDirection(d) session that overlapped no other
\* session has run its frame with raw = 1, the eye is center + dist * v(d)
\* and the up vector is u(d).
EndsAtRequestedDirection ==
    (/\ last.op = "animate" /\ last.raw = One
     /\ LastSession.kind = "direction" /\ LastSession.solo)
        => /\ camera.eye = VAdd(LastSession.c,
                                VTimes(DirVec(LastSession.direction),
                                       LastSession.dist))
           /\ camera.up = UpVec(LastSession.direction)

\* C8: when transition B was started while transition A was in flight, then
\* after the frame in which the last of the two ends (B's final callback,
\* which runs after A's), currentViewDirection is the direction B asked for.
NewestDirectionWins ==
    (/\ Idle /\ last.op = "animate" /\ last.raw = One
     /\ newest # 0 /\ last.slot = newest /\ Alive = {}
     /\ ~sessions[newest].solo)
        => currentViewDirection = sessions[newest].direction

\* C9: when transition B was started while transition A was in flight, the
\* last callback of every frame is B's, and after it the camera holds the
\* eye and up vector B computed for that frame.
CameraIsNewest ==
    (/\ Idle /\ last.op = "animate" /\ newest # 0
     /\ ~sessions[newest].solo
     /\ (sessions[newest].alive \/ last.slot = newest))
        => /\ last.slot = newest
           /\ camera.eye = FrameCamera(sessions[newest], Ease(last.raw)).eye
           /\ camera.up = FrameCamera(sessions[newest], Ease(last.raw)).up

\* C10: setCameraDirection with a token that is none of the six directions
\* changes nothing: not the camera, currentViewDirection or the overlay,
\* and it schedules no frame callback and starts no session.
UnknownTokenIgnored ==
    [][(last'.op = "setCameraDirection" /\ ~(last'.arg \in Directions))
         => UNCHANGED <<clock, threeObject, loading, loads, justLoaded,
                        camera, rulerGroup, rulerOpacity,
                        currentViewDirection, currentRulerMeshIndex,
                        sessions, newest, pending, running, overlayVars>>]_vars

\* C10 witness: such a call has been made while a transition was in flight
\* and an overlay was shown.
UnknownTokenWasPassed ==
    /\ last.op = "setCameraDirection" /\ last.arg = "diagonal"
    /\ Alive # {} /\ rulerGroup.exists

\* C11: setScaleRuler called while no object is loaded changes nothing,
\* whether it enables or disables the ruler: the group, the tick entries,
\* the label sprites, the remembered mesh index, currentViewDirection and
\* the camera stay as they were.
SetScaleRulerWithoutObjectIsNoOp ==
    [][(last'.op = "setScaleRuler" /\ ~threeObject)
         => UNCHANGED <<rulerGroup, rulerOpacity, rulerTickSprites,
                        rulerLabelSprites, lastRulerLabels,
                        currentRulerMeshIndex, currentViewDirection, camera,
                        justLoaded, threeObject>>]_vars

\* C11 witness: setScaleRuler(false) has been called after a new load
\* began, while the group of the previous object was still shown.
DisabledWithoutObject ==
    /\ last.op = "setScaleRuler" /\ last.arg = "false"
    /\ ~threeObject /\ rulerGroup.exists /\ rulerTickSprites # <<>>

\* C12: a transition that setCameraDirection or resetCamera started while
\* no object was loaded does nothing: none of its frame callbacks changes
\* the camera, the overlay or currentViewDirection.
TransitionWithoutObjectIsNoOp ==
    [][(last'.op = "animate" /\ ~sessions[last'.slot].loadedAtStart)
         => UNCHANGED <<camera, currentViewDirection, rulerGroup,
                        rulerOpacity, rulerTickSprites,
                        rulerLabelSprites>>]_vars

\* The tick entries an axis block of the current group pushed: the x block
\* comes first, then y, then z.
AxisEntries(axis) ==
    LET nx == rulerGroup.axes.x.numbers
        ny == rulerGroup.axes.y.numbers
        nz == rulerGroup.axes.z.numbers
    IN CASE axis = "x" -> SubSeq(rulerTickSprites, 1, nx)
         [] axis = "y" -> SubSeq(rulerTickSprites, nx + 1, nx + ny)
         [] axis = "z" -> SubSeq(rulerTickSprites, nx + ny + 1, nx + ny + nz)

\* The extent of the loaded object along an axis.
Extent(axis) ==
    CASE axis = "x" -> box.size[1]
      [] axis = "y" -> box.size[2]
      [] axis = "z" -> box.size[3]

AxisNames == {"x", "y", "z"}

\* C13: for an axis along which the bounding box has no extent, the
\* overlay holds no graduated ticks, no tick number labels and no
\* dimension label.
DegenerateAxisIsEmpty ==
    \A axis \in AxisNames :
        (rulerGroup.exists /\ Extent(axis) = 0)
            => /\ rulerGroup.axes[axis].marks = <<>>
               /\ rulerGroup.axes[axis].numbers = 0
               /\ ~rulerLabelSprites[axis].exists

\* The numbers of the form {1, 2, 5} x 10^k.
IsNiceNumber(step) ==
    \E k \in -4..4, m \in {1, 2, 5, 10} : step = m * Pow10(k)

\* C14 as stated: for every length L and footprint F, the step of the
\* planner has 2 <= L / step <= 10 and is of the form {1, 2, 5} x 10^k.
StepKeepsTwoToTenDivisions ==
    probe.op = "niceStep"
        => /\ 2 * probe.out[2] <= probe.in[1]
           /\ probe.in[1] <= 10 * probe.out[2]
           /\ IsNiceNumber(probe.out[2])

\* C14: for every length L and footprint F, the step of the planner is of
\* the form {1, 2, 5} x 10^k and L / step lies between 0.7 and 1.75 times
\* targetDivs, hence between 1.4 and 17.5.
StepKeepsRoughlyTargetDivs ==
    probe.op = "niceStep"
        => /\ IsNiceNumber(probe.out[2])
           /\ 7 * probe.out[1] * probe.out[2] <= 10 * probe.in[1]
           /\ 100 * probe.in[1] <= 175 * probe.out[1] * probe.out[2]
           /\ probe.out[1] \in 2..10

\* C14 witness: the length 35 with a tiny footprint got targetDivs 10 and
\* the step 2, that is 17.5 divisions.
StepOfSeventeenAndAHalf ==
    /\ probe.op = "niceStep"
    /\ probe.in[1] = 35 * Scale
    /\ probe.out = <<10, 2 * Scale>>

\* The major step of an axis of the current group: the rawValue of its
\* first major tick after zero.
MajorStep(axis) == AxisEntries(axis)[2].rawValue

\* The overlay of the object of size (10, 4, 2) seen from the front, as
\* setScaleRuler has just built it.
MainBoxFromFront ==
    /\ last.op = "setScaleRuler" /\ last.built = 1
    /\ box = MainBox /\ rulerGroup.exists /\ rulerGroup.dir = "front"

\* C15 as stated: for the box of size (10, 4, 2) seen from the front, with
\* the default label footprint, the major step of the X ruler is 2.
MainBoxStepIsTwo ==
    MainBoxFromFront => MajorStep("x") = 2 * Scale

\* C15: for the box of size (10, 4, 2) seen from the front, with the
\* default label footprint, the major step of the X ruler is 1: its tick
\* numbers are 0, 1, ..., 10.
MainBoxStepIsOne ==
    MainBoxFromFront
        => /\ MajorStep("x") = Scale
           /\ Len(AxisEntries("x")) = 11
           /\ \A i \in 1..11 : AxisEntries("x")[i].rawValue = (i - 1) * Scale

\* C15 witness: that overlay has been built, with eleven tick numbers on
\* the X ruler.
MainBoxRulerBuilt ==
    MainBoxFromFront /\ rulerGroup.axes.x.numbers = 11

\* C16: a setScaleRuler(true, i) that follows a setScaleRuler(true, i)
\* which built the group leaves the overlay as the first call built it:
\* the same ruler endpoints and tick marks, the same tick entries (no
\* entry of the first build is kept beside the new ones) and the same
\* label texts.
SetScaleRulerTwiceIsIdempotent ==
    [][(/\ last.op = "setScaleRuler" /\ last.arg = "true" /\ last.built = 1
        /\ last'.op = "setScaleRuler" /\ last'.arg = "true")
         => /\ last'.built = 1
            /\ rulerGroup' = rulerGroup
            /\ rulerTickSprites' = rulerTickSprites
            /\ rulerLabelSprites' = rulerLabelSprites]_vars

\* C16 witness: the second of two such calls has rebuilt the group, with
\* cached labels and a unit factor to apply again.
BuiltTwiceInARow ==
    /\ last.op = "setScaleRuler" /\ last.arg = "true" /\ last.repeat
    /\ last.built = 1 /\ rulerGroup.exists
    /\ lastRulerLabels.exists /\ lastRulerLabels.unitFactor.defined
    /\ Len(rulerTickSprites) > 2

\* C17: formatting again the number read back from a text formatTickNum
\* returned gives the same text, for every number of the grid.
ReformatIsStable ==
    probe.op = "reformat" => probe.out = probe.in

\* A point of the overlay put back onto the bounding box: each coordinate
\* is brought into the extent of the box, which removes the outward
\* offsets.
OntoBox(p) ==
    [i \in 1..3 |-> Max(box.min[i], Min(p[i], box.min[i] + box.size[i]))]

\* The corners of the bounding box.
Corners ==
    {[i \in 1..3 |-> box.min[i] + c[i] * box.size[i]] :
         c \in [1..3 -> {0, 1}]}

\* C18: whatever the view direction, the zero ends of the X, Y and Z
\* rulers, put back onto the bounding box, are one and the same corner of
\* the box.
ZeroEndsShareACorner ==
    rulerGroup.exists
        => /\ OntoBox(rulerGroup.axes.x.start) \in Corners
           /\ OntoBox(rulerGroup.axes.y.start)
                  = OntoBox(rulerGroup.axes.x.start)
           /\ OntoBox(rulerGroup.axes.z.start)
                  = OntoBox(rulerGroup.axes.x.start)

\* C18 witness: the overlay has been rebuilt for the view from the top,
\* where the Y and Z rulers run backwards.
BuiltForTop ==
    /\ rulerGroup.exists /\ rulerGroup.dir = "top" /\ box = SmallBox
    /\ rulerGroup.reverse = [x |-> FALSE, y |-> TRUE, z |-> TRUE]
    /\ OntoBox(rulerGroup.axes.x.start) = <<0, 15000, 5000>>

\* The transition of slot i went from d1 to d2 and the next one, which has
\* just run its last frame, went back to d1, with an overlay shown at both
\* starts and now, the same object loaded and the cached labels as they
\* were.
ThereAndBack(i) ==
    /\ Idle /\ last.op = "animate" /\ last.slot = i + 1 /\ last.raw = One
    /\ sessions[i].kind = "direction" /\ sessions[i + 1].kind = "direction"
    /\ sessions[i].loadedAtStart /\ sessions[i + 1].loadedAtStart
    /\ sessions[i].before.exists
    /\ sessions[i].before.dir = sessions[i].before.direction
    /\ sessions[i + 1].before.exists
    /\ sessions[i + 1].before.direction = sessions[i].direction
    /\ sessions[i + 1].direction = sessions[i].before.direction
    /\ rulerGroup.exists /\ threeObject
    /\ box = sessions[i].before.box
    /\ lastRulerLabels = sessions[i].before.cached

AxisIndex(axis) ==
    CASE axis = "x" -> 1 [] axis = "y" -> 2 [] axis = "z" -> 3

\* C20: for every axis along which the box has an extent, the tick
\* entries of the axis begin with the number 0 at the start of the ruler
\* and end with the full length at its end, both moved off the ruler by
\* the same label offset, whatever the step.
TickEntriesSpanAxis ==
    \A axis \in AxisNames :
        (rulerGroup.exists /\ Extent(axis) > 0)
            => LET es == AxisEntries(axis)
                   r == rulerGroup.axes[axis]
                   n == Len(es)
               IN /\ n >= 2
                  /\ n = r.numbers
                  /\ es[1].rawValue = 0
                  /\ es[n].rawValue = Extent(axis)
                  /\ VSub(es[1].pos, r.start) = VSub(es[n].pos, r.end)
                  /\ VSub(es[1].pos, r.start)[AxisIndex(axis)] = 0
                  /\ \A k \in 2..(n - 1) :
                         /\ es[k].rawValue > 0
                         /\ es[k].rawValue < Extent(axis)

\* C20 witness: the Y ruler of the small object, of length 1.5 with the
\* step 0.2, ends with the numbers 1.4 and 1.5.
EndNumberOffTheStep ==
    /\ rulerGroup.exists /\ box = SmallBox
    /\ LET es == AxisEntries("y")
       IN /\ Len(es) = 9
          /\ es[8].rawValue = 14000
          /\ es[9].rawValue = 15000

\* The text a tick entry shows under the unit factor f.
TickText(entry, f) == FormatTickNum(Converted(entry.rawValue, f), TRUE)

\* C21: a call of updateRulerLabels leaves the group, the number of tick
\* entries and the rawValue and position of every entry as they were, and
\* with a unit factor f it leaves every tick label showing
\* formatTickNum(rawValue * f), whatever the factors of the calls before.
RelabelKeepsRawValues ==
    [][last'.op = "updateRulerLabels" =>
          /\ rulerGroup' = rulerGroup
          /\ DOMAIN rulerTickSprites' = DOMAIN rulerTickSprites
          /\ \A k \in DOMAIN rulerTickSprites :
                 /\ rulerTickSprites'[k].rawValue = rulerTickSprites[k].rawValue
                 /\ rulerTickSprites'[k].pos = rulerTickSprites[k].pos
                 /\ lastRulerLabels'.unitFactor.defined
                        => rulerTickSprites'[k].text
                               = TickText(rulerTickSprites[k],
                                          lastRulerLabels'.unitFactor)]_vars

\* C21 witness: a call with a unit factor after a call with another one,
\* with an overlay whose numbers the factor changes.
RelabelledTwice ==
    /\ last.op = "updateRulerLabels" /\ last.repeat
    /\ rulerGroup.exists
    /\ \E k \in DOMAIN rulerTickSprites :
           /\ rulerTickSprites[k].text # TickText(rulerTickSprites[k], Factor(1, 1))
           /\ rulerTickSprites[k].text
                  # TickText(rulerTickSprites[k], Factor(10, 254))

\* C22: after a frame of a transition that rebuilt the overlay, with
\* labels cached by an earlier updateRulerLabels(w, h, d, f), the three
\* dimension labels show w, h and d and, when f is defined, every tick
\* label shows formatTickNum(rawValue * f).
RebuildReappliesLabels ==
    (last.op = "animate" /\ last.built > 0 /\ lastRulerLabels.exists) =>
        /\ rulerGroup.exists
        /\ rulerLabelSprites.x.exists /\ rulerLabelSprites.x.text = lastRulerLabels.w
        /\ rulerLabelSprites.y.exists /\ rulerLabelSprites.y.text = lastRulerLabels.h
        /\ rulerLabelSprites.z.exists /\ rulerLabelSprites.z.text = lastRulerLabels.d
        /\ lastRulerLabels.unitFactor.defined =>
               \A k \in DOMAIN rulerTickSprites :
                   rulerTickSprites[k].text
                       = TickText(rulerTickSprites[k], lastRulerLabels.unitFactor)

\* C22 witness: the rebuild at the midpoint of a transition, with labels
\* cached with the factor 1 / 25.4.
RebuiltWithInchLabels ==
    /\ last.op = "animate" /\ last.built > 0 /\ last.raw = Half
    /\ lastRulerLabels.exists
    /\ lastRulerLabels.w = <<"w">>
    /\ lastRulerLabels.unitFactor = Factor(10, 254)
    /\ rulerTickSprites # <<>>

\* The tick callbacks registered or about to run.
Ticks(queue) == SelectSeq(queue, IsTick)

\* C23: while autoRotateId is null no tick callback is registered or about
\* to run, every tick that runs finds the loop started and not stopped,
\* and a stopAutoRotate that finds no loop running changes no state.
StopReleasesTheTick ==
    [][/\ autoRotateId' = NoHandle
           => Ticks(pending') = <<>> /\ Ticks(running') = <<>>
       /\ last'.op = "tick" => autoRotateId # NoHandle
       /\ (last'.op = "stopAutoRotate" /\ autoRotateId = NoHandle)
           => UNCHANGED <<clock, threeObject, loading, loads, justLoaded,
                          camera, rulerGroup, extras, rulerOpacity,
                          currentViewDirection, currentRulerMeshIndex,
                          sessions, newest, pending, running, overlayVars,
                          rotateVars>>]_vars

\* C23 witness: stopAutoRotate called again after it stopped a loop whose
\* tick had run, while a transition waits for its next frame.
StoppedTwice ==
    /\ last.op = "stopAutoRotate" /\ last.arg = "idle"
    /\ handles >= 2 /\ pending # <<>>

\* C24: setCameraDirection, resetCamera and every frame of a transition
\* leave autoRotateId, autoRotatePrev and the registered tick callbacks as
\* they are, and autoRotateId becomes null by stopAutoRotate only.
TransitionsLeaveAutoRotate ==
    [][/\ last'.op \in {"setCameraDirection", "resetCamera", "animate"}
           => /\ UNCHANGED rotateVars
              /\ Ticks(pending') = Ticks(pending)
       /\ (autoRotateId # NoHandle /\ autoRotateId' = NoHandle)
           => last'.op = "stopAutoRotate"]_vars

\* C24 witness: the last frame of a transition that started and ended
\* while the loop was running.
TransitionEndedWhileRotating ==
    /\ last.op = "animate" /\ last.raw = One
    /\ autoRotateId # NoHandle
    /\ sessions[last.slot].startTime >= 2 * Quarter
    /\ handles >= 3

\* Whether the call that led to the next state starts an animation.
CallStarts ==
    \/ last'.op = "resetCamera"
    \/ last'.op = "setCameraDirection" /\ KnownDirection(last'.arg)
    \/ last'.op = "startAutoRotate" /\ autoRotateId = NoHandle

\* C26: a call of setCameraDirection, resetCamera or startAutoRotate
\* leaves the camera, currentViewDirection and the overlay as they are
\* and runs no callback; a call that starts an animation registers exactly
\* one frame callback, and a call that starts none registers none.
CallsOnlySchedule ==
    [][last'.op \in {"setCameraDirection", "resetCamera", "startAutoRotate"}
           => /\ UNCHANGED <<camera, currentViewDirection, rulerGroup,
                             rulerOpacity, rulerTickSprites,
                             rulerLabelSprites, running, clock>>
              /\ Len(pending') = Len(pending) + (IF CallStarts THEN 1 ELSE 0)
              /\ SubSeq(pending', 1, Len(pending)) = pending]_vars

\* C26 witness: startAutoRotate called with the overlay shown while a
\* transition waits for its next frame.
StartedRotatingInFlight ==
    /\ last.op = "startAutoRotate" /\ last.arg = "idle"
    /\ rulerGroup.exists /\ Alive # {}
    /\ Len(pending) = 2

\* C25: a transition that runs alone and started with no overlay leaves
\* currentViewDirection as it is in every frame before its last one and
\* equal to the requested direction after its last one, and a
\* setScaleRuler(true) that follows the end of the transition, with the
\* object the transition started with, builds the overlay for the
\* requested direction.
ViewDirectionFollowsTransition ==
    [][/\ (/\ last'.op = "animate"
           /\ sessions[last'.slot].solo /\ sessions'[last'.slot].solo
           /\ ~sessions[last'.slot].hasRuler)
           => IF last'.raw < One
              THEN currentViewDirection' = currentViewDirection
              ELSE currentViewDirection' = sessions[last'.slot].direction
       /\ (/\ last'.op = "setScaleRuler" /\ last'.arg = "true"
           /\ last'.built = 1
           /\ newest # 0 /\ Alive = {}
           /\ sessions[newest].solo /\ ~sessions[newest].hasRuler
           /\ sessions[newest].loadedAtStart /\ loads = 1)
           => /\ rulerGroup'.exists
              /\ rulerGroup'.dir = sessions[newest].direction]_vars

\* C27: after a setScaleRuler(false) of the host with an object loaded no
\* overlay exists: the viewer shows no extra object, rulerGroup is null,
\* rulerTickSprites is empty and the three dimension label sprites are
\* null.
DisabledLeavesNoOverlay ==
    (last.op = "setScaleRuler" /\ last.arg = "false" /\ threeObject)
        => /\ extras = <<>>
           /\ ~rulerGroup.exists
           /\ rulerTickSprites = <<>>
           /\ rulerLabelSprites = NoLabelSprites

\* C27 witness: the overlay is disabled while a transition that started
\* with the overlay shown waits for its next frame.
DisabledInFlight ==
    /\ last.op = "setScaleRuler" /\ last.arg = "false" /\ threeObject
    /\ \E i \in Alive : sessions[i].hasRuler /\ sessions[i].loadedAtStart

\* The tick entries the build of a group pushes for the loaded object, in
\* the order of the axis blocks.
EntriesOf(group, bbox) ==
    LET b == BuiltAxes[<<bbox, group.dir>>]
    IN b.entries.x \o b.entries.y \o b.entries.z

\* What identifies a tick entry: its place and its raw value (its text
\* changes with updateRulerLabels).
Places(entries) ==
    [k \in DOMAIN entries |->
        [pos |-> entries[k].pos, rawValue |-> entries[k].rawValue]]

\* C28: the viewer shows at most one extra object, which is the current
\* rulerGroup, and rulerTickSprites holds the entries of that group and no
\* other: with no group the viewer shows no extra object and the list is
\* empty.
OneGroupOwnsTheEntries ==
    /\ Len(extras) <= 1
    /\ rulerGroup.exists
           => /\ extras = <<rulerGroup>>
              /\ Places(rulerTickSprites) = Places(EntriesOf(rulerGroup, box))
    /\ ~rulerGroup.exists => extras = <<>> /\ rulerTickSprites = <<>>

\* C28 witness: the midpoint of a transition has built the overlay again
\* for another direction after the host enabled it twice and changed its
\* labels.
RebuiltOverExisting ==
    /\ last.op = "animate" /\ last.built = 1
    /\ rulerGroup.exists /\ rulerGroup.dir # "front"
    /\ lastRulerLabels.exists
    /\ Len(extras) = 1

\* The transitions that still have a frame callback registered or running.
InFlight ==
    {i \in Slots : \E k \in DOMAIN (pending \o running) :
                       (pending \o running)[k] = i}

\* C29: whenever an overlay exists and no transition has a frame callback
\* left, the overlay was built for the current value of
\* currentViewDirection.
OverlayMatchesViewDirection ==
    (rulerGroup.exists /\ InFlight = {})
        => rulerGroup.dir = currentViewDirection

\* C30: rulerGroup is null before the first enable and after a
\* setScaleRuler(false) of the host with an object loaded, and from then on
\* only a setScaleRuler(true) of the host creates the overlay: no frame of
\* a transition does, whether or not the transition was in flight when the
\* host disabled the overlay.
DisabledStaysAbsent ==
    [][(~rulerGroup.exists /\ last'.op = "animate")
           => ~rulerGroup'.exists]_vars

\* C31: a theme switch leaves the text of every label as it was: with
\* labels supplied by updateRulerLabels(w, h, d, f) every tick label still
\* shows formatTickNum(rawValue * f) and the dimension labels still show
\* w, h and d, and no entry changes its place.  (The scale of a sprite is
\* its base scale times the aspect of its text, so it changes only with
\* the text.)
ThemeKeepsLabelTexts ==
    [][(last'.op = "setTheme" /\ rulerGroup.exists /\ lastRulerLabels.exists)
          => /\ rulerLabelSprites' = rulerLabelSprites
             /\ DOMAIN rulerTickSprites' = DOMAIN rulerTickSprites
             /\ \A k \in DOMAIN rulerTickSprites :
                    /\ rulerTickSprites'[k].pos = rulerTickSprites[k].pos
                    /\ lastRulerLabels.unitFactor.defined
                           => rulerTickSprites'[k].text
                                  = TickText(rulerTickSprites[k],
                                             lastRulerLabels.unitFactor)]_vars

\* C32: setTheme raises no error, with an overlay as without one.
SetThemeCompletes ==
    last.op = "setTheme" => ~last.raised

\* C33: once no transition has a frame callback left, an overlay that
\* exists has the opacity factor 1.
SettledOverlayIsOpaque ==
    (rulerGroup.exists /\ InFlight = {}) => rulerOpacity = One

\* C33 witness: two overlapping transitions have ended, the older one
\* started with the overlay shown and faded it, and the host disabled and
\* enabled the overlay while it was in flight.
OverlappingFadesSettled ==
    /\ last.op = "animate" /\ last.raw = One
    /\ rulerGroup.exists /\ InFlight = {}
    /\ \A i \in Slots : sessions[i].kind # "none"
    /\ sessions[1].hasRuler /\ ~sessions[2].hasRuler

\* C35: at most one tick callback of the auto-rotate loop is registered
\* at any time, and a startAutoRotate called while a loop runs registers
\* nothing and leaves autoRotateId, autoRotatePrev and the hSpeed of the
\* running loop as they are.
OneAutoRotateLoop ==
    [][/\ Len(Ticks(pending')) + Len(Ticks(running')) <= 1
       /\ (last'.op = "startAutoRotate" /\ autoRotateId # NoHandle)
              => UNCHANGED <<pending, running, rotateVars, camera>>]_vars

\* C35 witness: startAutoRotate called with another speed while a loop
\* that was stopped and started again runs.
StartedAgainWhileRotating ==
    /\ last.op = "startAutoRotate" /\ last.arg = "running"
    /\ last.raw # hSpeed
    /\ handles >= 3
    /\ Len(Ticks(pending)) = 1

\* The graduated tick marks addGraduatedTicks added in the last call of
\* the planner, their distances from the zero end, and the raw values of
\* the interior tick entries (all entries but the first and the last).
Graduated == probe.op = "addGraduatedTicks"
MarkDistances ==
    [k \in DOMAIN probe.out.added.marks |-> probe.out.added.marks[k].pos[1]]
InteriorValues ==
    [k \in 1..(Len(probe.out.added.entries) - 2) |->
        probe.out.added.entries[k + 1].rawValue]

\* C36: no graduated tick mark lies at a distance t from the zero end with
\* t < 0.05 * step or t > length - 0.05 * step, and every interior tick
\* entry has 0 < rawValue < length.
NoTickNearTheEnds ==
    Graduated =>
        /\ \A k \in DOMAIN MarkDistances :
               /\ 20 * MarkDistances[k] >= probe.out.step
               /\ 20 * MarkDistances[k] <= 20 * probe.in[1] - probe.out.step
        /\ \A k \in DOMAIN InteriorValues :
               InteriorValues[k] > 0 /\ InteriorValues[k] < probe.in[1]

\* C36 witness: an axis of length 2 with step 0.2, whose loop reaches the
\* full length and the zero end and draws neither.
LoopReachesBothEnds ==
    /\ Graduated
    /\ probe.in[1] = 2 * Scale /\ probe.out.step = Scale \div 5
    /\ Len(MarkDistances) >= 9

\* C37: a graduated tick is labelled exactly if it is major, and it is
\* major exactly if its distance is a whole multiple of the step: with
\* minor ticks (tickStep = step / 2, taken only if step / 2 exceeds
\* 1.2 * labelWidth) the ticks at the odd multiples of step / 2 are minor
\* and carry no number, and without them every tick is major.
LabelledIffMajor ==
    Graduated =>
        LET marks == probe.out.added.marks
            step == probe.out.step
        IN /\ probe.out.showMinor <=> 125 * step > 3 * probe.in[2]
           /\ \A k \in DOMAIN marks :
                  /\ marks[k].major <=> (2 * marks[k].pos[1]) % (2 * step) = 0
                  /\ (2 * marks[k].pos[1]) % step = 0
                  /\ ~probe.out.showMinor => marks[k].major
           /\ InteriorValues
                  = [k \in DOMAIN SelectSeq(marks, IsMajorTick) |->
                        SelectSeq(marks, IsMajorTick)[k].pos[1]]

\* C37 witness: an axis with minor ticks between its numbered major ticks.
MinorTicksBetweenMajors ==
    /\ Graduated /\ probe.out.showMinor
    /\ \E k \in DOMAIN probe.out.added.marks :
           ~probe.out.added.marks[k].major
    /\ Len(InteriorValues) >= 3

\* Transition i has ended: it ran its last frame and no callback of it is
\* registered or running.
Ended(i) == sessions[i].kind # "none" /\ ~sessions[i].alive /\ i \notin InFlight

\* C34: while frames keep coming, every transition that was started ends;
\* it ends in a frame with raw = 1, and once ended it runs no frame and
\* registers no callback again.
TransitionsTerminate ==
    /\ \A i \in Slots : sessions[i].alive ~> Ended(i)
    /\ [][\A i \in Slots :
             /\ (sessions[i].alive /\ ~sessions'[i].alive)
                    => /\ last'.op = "animate" /\ last'.slot = i
                       /\ last'.raw = One
             /\ Ended(i)
                    => /\ ~sessions'[i].alive
                       /\ \A k \in DOMAIN (pending' \o running') :
                              (pending' \o running')[k] # i
                       /\ ~(last'.op = "animate" /\ last'.slot = i)]_vars

\* C34 witness: two overlapping transitions have both ended, the second
\* one in a later frame than the first.
BothTransitionsEnded ==
    /\ \A i \in Slots : Ended(i)
    /\ sessions[1].startTime < sessions[2].startTime
    /\ last.op = "animate" /\ last.slot = 2 /\ last.raw = One

\* C38: the first setScaleRuler(true) after a model finished loading
\* builds an overlay whose dimension labels show the sizes of the new
\* object's bounding box and whose tick labels show its unscaled
\* distances, whatever updateRulerLabels supplied for the model before.
NewTargetShowsItsOwnSizes ==
    [][(/\ last'.op = "setScaleRuler" /\ last'.arg = "true"
        /\ threeObject /\ justLoaded)
          => /\ \A axis \in AxisNames :
                    rulerLabelSprites'[axis].exists
                        => rulerLabelSprites'[axis].text
                               = ToFixed2(Num(Extent(axis), 0), TRUE)
             /\ \A k \in DOMAIN rulerTickSprites' :
                    rulerTickSprites'[k].text
                        = ThemeTickText(rulerTickSprites'[k])]_vars

\* The camera at eye level in front of the center c, dist away.
EyeLevel(c, dist) ==
    [eye |-> VAdd(c, <<0, 0, dist>>), center |-> c, up |-> <<0, One, 0>>]

====
